---------------------------- MODULE Spec2Model ----------------------------
(***************************************************************************)
(* A model of the authorization and identity core of the uniform patient   *)
(* record backend: the token service (app/core/security.py), the identity  *)
(* resolver and role gate (app/core/dependencies.py), the endpoints of     *)
(* app/api/endpoints and the store operations of app/crud.                 *)
(*                                                                         *)
(* Every handler is an operator from (store, request, clock) to a result   *)
(* record [status, caller, body, db]; an action applies one handler to the *)
(* store.  The variable last keeps the last request that changed the store *)
(* or issued a token.                                                      *)
(* The variable sessions keeps the requests that are inside create_user    *)
(* at the same time, each with a transaction of its own (RaceSpec); under  *)
(* the other specifications a handler runs alone and sessions stays empty. *)
(*                                                                         *)
(* Time is counted in minutes.  The clock only moves to the expiry of a     *)
(* token in flight, to the minute before it or to the minute after it: the *)
(* code compares the clock with nothing else.                              *)
(***************************************************************************)
EXTENDS Integers, Sequences, FiniteSets, TLC

VARIABLES db, issued, now, last, sessions

vars == <<db, issued, now, last, sessions>>

---------------------------------------------------------------------------
(* Bounds of the model *)

\* rows and tokens that may be added to the seeded store under Spec
MaxNew == 2
\* tokens that may be issued under TokenSpec
MaxTokens == 1
\* requests that may be inside create_user at the same time under RaceSpec
MaxSessions == 2

---------------------------------------------------------------------------
(* Program constants *)

ACCESS_TOKEN_EXPIRE_MINUTES == 1440
SECRET_KEY == "YOUR_SUPER_SECRET_KEY_NEVER_HARDCODE_IN_PROD"

\* Python's None, and a claim that a token payload does not carry
None == "None"
Missing == "<missing>"

Roles == {"Patient", "Doctor", "Hospital Admin"}

---------------------------------------------------------------------------
(* Identifiers.  A uuid is modelled by its canonical string. *)

SeedIds == {"a1", "a2", "d1", "d2", "p1", "p2"}
\* uuid4 values not yet used, in the order the model hands them out
NewIdPool == <<"n1", "n2", "n3", "n4">>
\* a well-formed uuid that names no identity
GhostId == "ghost"
UuidStrings == SeedIds \cup {NewIdPool[i] : i \in 1..Len(NewIdPool)} \cup {GhostId}

\* Python values handed to create_access_token as subject: a uuid.UUID, a str, None
PyUuid(u) == [t |-> "uuid", v |-> u]
PyStr(s) == [t |-> "str", v |-> s]
PyNone == [t |-> "none", v |-> ""]

\* str(subject): a uuid gives its canonical string, a string itself, None "None"
Str(x) == IF x.t = "none" THEN "None" ELSE x.v

\* uuid.UUID(s) succeeds on the canonical string of a uuid and raises ValueError
\* on any other string
IsUuidString(s) == s \in UuidStrings

---------------------------------------------------------------------------
(* Credential store: app/core/security.py *)

\* the outcome of a call that may raise: the value returned, or the exception
Returned(value) == [raises |-> None, value |-> value]
Raised(exception) == [raises |-> exception, value |-> {}]

\* a password is a sequence of characters, each with the width in bytes of its
\* UTF-8 encoding
Chr(c) == [ch |-> c, w |-> 1]
Wide(c, n) == [ch |-> c, w |-> n]
Ascii(s) == [i \in 1..Len(s) |-> Chr(s[i])]

BCRYPT_MAX_BYTES == 72

\* password.encode("utf-8"): the bytes of each character, in order (the
\* encoding of a string is the encoding of its halves, one after the other)
RECURSIVE Utf8Encode(_)
Utf8Encode(p) ==
    IF p = <<>> THEN <<>>
    ELSE IF Len(p) = 1
         THEN [k \in 1..p[1].w |-> [ch |-> p[1].ch, w |-> p[1].w, k |-> k]]
         ELSE LET half == Len(p) \div 2 IN
              Utf8Encode(SubSeq(p, 1, half)) \o Utf8Encode(SubSeq(p, half + 1, Len(p)))

\* bytes.decode("utf-8", errors="ignore"): whole characters are kept, the bytes
\* of a character that is not whole are dropped
Utf8DecodeIgnore(b) ==
    LET Whole(i) ==
            /\ b[i].k = 1
            /\ i + b[i].w - 1 <= Len(b)
            /\ \A j \in 1..b[i].w :
                   b[i + j - 1] = [ch |-> b[i].ch, w |-> b[i].w, k |-> j]
        starts == SelectSeq([i \in 1..Len(b) |-> i], Whole)
    IN [n \in 1..Len(starts) |-> [ch |-> b[starts[n]].ch, w |-> b[starts[n]].w]]

\* password.encode("utf-8")[:72].decode("utf-8", errors="ignore")
Truncate(p) ==
    LET b == Utf8Encode(p) IN
    Utf8DecodeIgnore(SubSeq(b, 1, IF Len(b) < BCRYPT_MAX_BYTES THEN Len(b) ELSE BCRYPT_MAX_BYTES))

\* pwd_context.hash / pwd_context.verify: a bcrypt digest is modelled by the
\* string it was computed from (the salt is part of the digest)
BcryptHash(secret) == [scheme |-> "bcrypt", of |-> secret]
\* a stored string that is no bcrypt digest
MalformedDigest == [scheme |-> "unknown", of |-> <<>>]

\* pwd_context.verify identifies the scheme of the digest first: a digest of no
\* known scheme raises UnknownHashError
BcryptVerify(secret, hash) ==
    IF hash.scheme # "bcrypt" THEN Raised("UnknownHashError")
    ELSE Returned(hash = BcryptHash(secret))

\* get_password_hash passing the password on as it is
get_password_hash_untruncated(password) == BcryptHash(password)

get_password_hash(password) == BcryptHash(Truncate(password))

\* verify_password passing the password on as it is
verify_password_untruncated(plain_password, hashed_password) ==
    BcryptVerify(plain_password, hashed_password)

verify_password(plain_password, hashed_password) ==
    BcryptVerify(Truncate(plain_password), hashed_password)

TEST_PASS == Ascii(<<"t", "e", "s", "t", "p", "a", "s", "s">>)
Password123 == Ascii(<<"p", "a", "s", "s", "w", "o", "r", "d", "1", "2", "3">>)
ShortPassword == Ascii(<<"a", "b", "c">>)
\* 74 bytes: the cut at 72 bytes falls inside the two-byte character
LongPassword == [i \in 1..71 |-> Chr("x")] \o <<Wide("e-acute", 2), Chr("y")>>
\* 73 bytes of one-byte characters, and exactly 72
AsciiPassword73 == [i \in 1..73 |-> Chr("z")]
AsciiPassword72 == [i \in 1..72 |-> Chr("z")]

\* passwords of more than 72 bytes around LongPassword: one that differs from it
\* only from the character the cut falls in, its first 71 characters alone, and
\* one that differs from it in the 71st byte
LongPasswordTwin == [i \in 1..71 |-> Chr("x")] \o <<Wide("omega", 2), Chr("z")>>
LongPasswordHead == [i \in 1..71 |-> Chr("x")]
LongPasswordOther ==
    [i \in 1..70 |-> Chr("x")] \o <<Chr("w"), Wide("e-acute", 2), Chr("y")>>

PASSWORD_MIN_LENGTH == 8
PASSWORD_MAX_LENGTH == 128

---------------------------------------------------------------------------
(* Token service: app/core/security.py and python-jose as the code uses it *)

\* HS256 over the header and payload: the signature is modelled by the key and
\* the claims it was computed over
Hmac(key, sub, role, exp) == [key |-> key, sub |-> sub, role |-> role, exp |-> exp]

\* jwt.encode(to_encode, key, algorithm)
jwt_encode(claims, key) ==
    [sub |-> claims.sub, role |-> claims.role, exp |-> claims.exp,
     sig |-> Hmac(key, claims.sub, claims.role, claims.exp)]

\* Optional[timedelta] is the empty set (None) or the set of one number of minutes
NoDelta == {}
Minutes(m) == {m}
DeltaValue(d) == CHOOSE m \in d : TRUE
\* bool(expires_delta): None and timedelta(0) are false
Truthy(d) == d # {} /\ d # {0}

create_access_token(subject, role, expires_delta, t) ==
    LET expire == IF Truthy(expires_delta)
                  THEN t + DeltaValue(expires_delta)
                  ELSE t + ACCESS_TOKEN_EXPIRE_MINUTES
    IN jwt_encode([exp |-> expire, sub |-> Str(subject), role |-> role], SECRET_KEY)

\* jwt.decode(token, key, algorithms): the signature is verified first, then the
\* exp claim; python-jose raises ExpiredSignatureError (a JWTError) when exp < now
\* jwt.decode taking a token for expired once the clock has passed its issue
jwt_decode_single_use(token, key, t) ==
    IF token.sig # Hmac(key, token.sub, token.role, token.exp)
    THEN [ok |-> FALSE, error |-> "JWTError"]
    ELSE IF token.exp - ACCESS_TOKEN_EXPIRE_MINUTES < t
    THEN [ok |-> FALSE, error |-> "ExpiredSignatureError"]
    ELSE [ok |-> TRUE, sub |-> token.sub, role |-> token.role]

jwt_decode(token, key, t) ==
    IF token.sig # Hmac(key, token.sub, token.role, token.exp)
    THEN [ok |-> FALSE, error |-> "JWTError"]
    ELSE IF token.exp < t
    THEN [ok |-> FALSE, error |-> "ExpiredSignatureError"]
    ELSE [ok |-> TRUE, sub |-> token.sub, role |-> token.role]

---------------------------------------------------------------------------
(* The store: app/db/models.py.  db is a record of tables, each a function   *)
(* from primary key to row.                                                  *)

User(email, password_hash, role) ==
    [email |-> email, password_hash |-> password_hash, role |-> role]
PatientProfile(first_name) == [first_name |-> first_name]
Doctor(hospital_id, license_number) ==
    [hospital_id |-> hospital_id, license_number |-> license_number]
HospitalAdmin(hospital_id) == [hospital_id |-> hospital_id]
Hospital(name, is_active) == [name |-> name, is_active |-> is_active]
MedicalRecord(patient_id, doctor_id, hospital_id) ==
    [patient_id |-> patient_id, doctor_id |-> doctor_id, hospital_id |-> hospital_id]

\* the store after seed_db.py, scaled down: two hospitals with an admin and a
\* doctor each, two patients with a visit each, every password TEST_PASS
SeedDb ==
    [users |->
        [u \in SeedIds |->
            User(u,
                 get_password_hash(TEST_PASS),
                 IF u \in {"a1", "a2"} THEN "Hospital Admin"
                 ELSE IF u \in {"d1", "d2"} THEN "Doctor" ELSE "Patient")],
     patient_profiles |-> ("p1" :> PatientProfile("Alice") @@ "p2" :> PatientProfile("Bob")),
     doctors |-> ("d1" :> Doctor(1, "LIC-1") @@ "d2" :> Doctor(2, "LIC-2")),
     hospital_admins |-> ("a1" :> HospitalAdmin(1) @@ "a2" :> HospitalAdmin(2)),
     hospitals |-> (1 :> Hospital("General", TRUE) @@ 2 :> Hospital("Regional", TRUE)),
     medical_records |-> (1 :> MedicalRecord("p1", "d1", 1) @@ 2 :> MedicalRecord("p2", "d2", 2))]

\* the email of a seeded identity is its id; other addresses a client may send
NewEmails == {"alice@example.com"}
Emails == SeedIds \cup NewEmails

\* rows in the store and tokens in flight
Size(d, iss) ==
    Cardinality(DOMAIN d.users) + Cardinality(DOMAIN d.hospitals)
    + Cardinality(DOMAIN d.medical_records) + Cardinality(iss)
SeedSize == Size(SeedDb, {})
\* a request that adds a row or a token is taken while the model has room
Room == Size(db, issued) < SeedSize + MaxNew

---------------------------------------------------------------------------
(* Identity resolver and role gate: app/core/dependencies.py *)

\* the result of a handler: the HTTP status, the identity the token resolved to
\* (None when it did not), the response body as a set, and the store it leaves
Result(status, caller, body, d) ==
    [status |-> status, caller |-> caller, body |-> body, db |-> d]

\* get_current_user_and_role answering 404 for a subject the store does not hold
get_current_user_and_role_not_found(d, token, t) ==
    LET payload == jwt_decode(token, SECRET_KEY, t) IN
    IF ~payload.ok THEN [status |-> 401, user |-> None]
    ELSE IF payload.sub = Missing \/ payload.role = Missing
    THEN [status |-> 401, user |-> None]
    ELSE IF ~IsUuidString(payload.sub) THEN [status |-> 500, user |-> None]
    ELSE IF payload.sub \notin DOMAIN d.users THEN [status |-> 404, user |-> None]
    ELSE [status |-> 200, user |-> payload.sub]

get_current_user_and_role(d, token, t) ==
    LET payload == jwt_decode(token, SECRET_KEY, t) IN
    IF ~payload.ok THEN [status |-> 401, user |-> None]
    ELSE IF payload.sub = Missing \/ payload.role = Missing
    THEN [status |-> 401, user |-> None]
    \* uuid.UUID raises ValueError, which "except JWTError" does not catch
    ELSE IF ~IsUuidString(payload.sub) THEN [status |-> 500, user |-> None]
    ELSE IF payload.sub \notin DOMAIN d.users THEN [status |-> 401, user |-> None]
    ELSE [status |-> 200, user |-> payload.sub]

\* require_role with a hierarchy: a Hospital Admin passes every gate
require_role_hierarchy(allowed_roles, d, token, t) ==
    LET cur == get_current_user_and_role(d, token, t) IN
    IF cur.status # 200 THEN cur
    ELSE IF d.users[cur.user].role \notin allowed_roles \cup {"Hospital Admin"}
    THEN [status |-> 403, user |-> cur.user]
    ELSE cur

\* require_role testing the role claim of the token
require_role_of_token(allowed_roles, d, token, t) ==
    LET cur == get_current_user_and_role(d, token, t) IN
    IF cur.status # 200 THEN cur
    ELSE IF jwt_decode(token, SECRET_KEY, t).role \notin allowed_roles
    THEN [status |-> 403, user |-> cur.user]
    ELSE cur

require_role(allowed_roles, d, token, t) ==
    LET cur == get_current_user_and_role(d, token, t) IN
    IF cur.status # 200 THEN cur
    ELSE IF d.users[cur.user].role \notin allowed_roles
    THEN [status |-> 403, user |-> cur.user]
    ELSE cur

DoctorUser(d, token, t) == require_role({"Doctor"}, d, token, t)
AdminUser(d, token, t) == require_role({"Hospital Admin"}, d, token, t)
AnyAuthenticatedUser(d, token, t) == get_current_user_and_role(d, token, t)

---------------------------------------------------------------------------
(* Records: app/crud/record.py and app/api/endpoints/records.py *)

NextKey(table) ==
    IF DOMAIN table = {} THEN 1
    ELSE 1 + CHOOSE k \in DOMAIN table : \A j \in DOMAIN table : j <= k

\* parsing a request body as MedicalRecordCreate: doctor_id and hospital_id are
\* no fields of the schema, so whatever the body carries for them is dropped
MedicalRecordCreate(body) == [patient_id |-> body.patient_id]

\* create_medical_record writing the new row under the last key in use
create_medical_record_at_last_key(d, record, doctor_id, hospital_id) ==
    LET id == NextKey(d.medical_records) - 1 IN
    [id |-> id,
     db |-> [d EXCEPT !.medical_records =
                (id :> MedicalRecord(record.patient_id, doctor_id, hospital_id)) @@ @]]

create_medical_record(d, record, doctor_id, hospital_id) ==
    LET id == NextKey(d.medical_records) IN
    [id |-> id,
     db |-> [d EXCEPT !.medical_records =
                @ @@ (id :> MedicalRecord(record.patient_id, doctor_id, hospital_id))]]

get_record_by_id(d, record_id) ==
    IF record_id \in DOMAIN d.medical_records THEN {record_id} ELSE {}

get_patient_records(d, patient_id) ==
    {r \in DOMAIN d.medical_records : d.medical_records[r].patient_id = patient_id}

\* create_record taking the hospital from the request body
create_record_trusting_body(d, token, body, t) ==
    LET current_doctor == DoctorUser(d, token, t)
        record_in == MedicalRecordCreate(body)
    IN
    IF current_doctor.status # 200
    THEN Result(current_doctor.status, current_doctor.user, {}, d)
    ELSE IF record_in.patient_id \notin DOMAIN d.patient_profiles
    THEN Result(404, current_doctor.user, {}, d)
    ELSE IF current_doctor.user \notin DOMAIN d.doctors
    THEN Result(500, current_doctor.user, {}, d)
    ELSE LET made == create_medical_record(d, record_in, current_doctor.user,
                                           body.hospital_id)
         IN Result(201, current_doctor.user, {made.id}, made.db)

create_record(d, token, body, t) ==
    LET current_doctor == DoctorUser(d, token, t)
        record_in == MedicalRecordCreate(body)
    IN
    IF current_doctor.status # 200
    THEN Result(current_doctor.status, current_doctor.user, {}, d)
    ELSE IF record_in.patient_id \notin DOMAIN d.patient_profiles
    THEN Result(404, current_doctor.user, {}, d)
    \* doctor_details is None: the attribute access raises
    ELSE IF current_doctor.user \notin DOMAIN d.doctors
    THEN Result(500, current_doctor.user, {}, d)
    ELSE LET doctor_details == d.doctors[current_doctor.user]
             made == create_medical_record(d, record_in, current_doctor.user,
                                           doctor_details.hospital_id)
         IN Result(201, current_doctor.user, {made.id}, made.db)

\* read_record_detail that lets staff read the records of their own hospital only
read_record_detail_hospital_scoped(d, token, record_id, t) ==
    LET current_user == AnyAuthenticatedUser(d, token, t)
        db_record == get_record_by_id(d, record_id)
    IN
    IF current_user.status # 200
    THEN Result(current_user.status, current_user.user, {}, d)
    ELSE IF db_record = {}
    THEN Result(404, current_user.user, {}, d)
    ELSE IF d.users[current_user.user].role = "Patient"
            /\ current_user.user # d.medical_records[record_id].patient_id
    THEN Result(403, current_user.user, {}, d)
    ELSE IF \E table \in {d.doctors, d.hospital_admins} :
               /\ current_user.user \in DOMAIN table
               /\ table[current_user.user].hospital_id # d.medical_records[record_id].hospital_id
    THEN Result(403, current_user.user, {}, d)
    ELSE Result(200, current_user.user, db_record, d)

read_record_detail(d, token, record_id, t) ==
    LET current_user == AnyAuthenticatedUser(d, token, t)
        db_record == get_record_by_id(d, record_id)
    IN
    IF current_user.status # 200
    THEN Result(current_user.status, current_user.user, {}, d)
    ELSE IF db_record = {}
    THEN Result(404, current_user.user, {}, d)
    ELSE IF d.users[current_user.user].role = "Patient"
            /\ current_user.user # d.medical_records[record_id].patient_id
    THEN Result(403, current_user.user, {}, d)
    ELSE Result(200, current_user.user, db_record, d)

\* read_patient_records without the comparison of caller and patient
read_patient_records_unscoped(d, token, patient_id, t) ==
    LET current_user == AnyAuthenticatedUser(d, token, t) IN
    IF current_user.status # 200
    THEN Result(current_user.status, current_user.user, {}, d)
    ELSE IF patient_id \notin DOMAIN d.patient_profiles
    THEN Result(404, current_user.user, {}, d)
    ELSE Result(200, current_user.user, get_patient_records(d, patient_id), d)

read_patient_records(d, token, patient_id, t) ==
    LET current_user == AnyAuthenticatedUser(d, token, t) IN
    IF current_user.status # 200
    THEN Result(current_user.status, current_user.user, {}, d)
    ELSE IF d.users[current_user.user].role = "Patient" /\ current_user.user # patient_id
    THEN Result(403, current_user.user, {}, d)
    ELSE IF patient_id \notin DOMAIN d.patient_profiles
    THEN Result(404, current_user.user, {}, d)
    ELSE Result(200, current_user.user, get_patient_records(d, patient_id), d)

---------------------------------------------------------------------------
(* Users: app/crud/user.py, app/api/endpoints/auth.py and users.py *)

get_user_by_email(d, email) == {u \in DOMAIN d.users : d.users[u].email = email}

\* the default of User.id: a uuid4 the store does not hold yet
FreshIds(d) == {i \in 1..Len(NewIdPool) : NewIdPool[i] \notin DOMAIN d.users}
FreshId(d) == NewIdPool[CHOOSE i \in FreshIds(d) : \A j \in FreshIds(d) : i <= j]

\* UserCreate: password: str = Field(min_length=8, max_length=128)
UserCreateValid(user_in) ==
    Len(user_in.password) >= PASSWORD_MIN_LENGTH /\ Len(user_in.password) <= PASSWORD_MAX_LENGTH

\* The request's session (get_db): flush writes rows inside the transaction,
\* commit makes what was written the store, and closing the session without a
\* commit rolls the transaction back.
db_commit(committed, written) == written

\* a session whose close keeps what was flushed
db_close_keeps_flushed(committed, written) == written

db_close(committed, written) == committed

\* create_user choosing the profile table by the shape of the profile data
create_user_profile_by_shape(d, user, profile_data) ==
    LET id == FreshId(d)
        with_user == [d EXCEPT !.users =
                         @ @@ (id :> User(user.email, get_password_hash(user.password), user.role))]
    IN
    IF get_user_by_email(d, user.email) # {} THEN [ok |-> FALSE, id |-> None, db |-> d]
    ELSE IF profile_data.kind = "patient"
    THEN [ok |-> TRUE, id |-> id,
          db |-> [with_user EXCEPT !.patient_profiles =
                     @ @@ (id :> PatientProfile(profile_data.first_name))]]
    ELSE IF profile_data.hospital_id \notin DOMAIN d.hospitals
    THEN [ok |-> FALSE, id |-> None, db |-> d]
    ELSE IF profile_data.kind = "doctor"
    THEN [ok |-> TRUE, id |-> id,
          db |-> [with_user EXCEPT !.doctors =
                     @ @@ (id :> Doctor(profile_data.hospital_id,
                                        profile_data.license_number))]]
    ELSE [ok |-> TRUE, id |-> id,
          db |-> [with_user EXCEPT !.hospital_admins =
                     @ @@ (id :> HospitalAdmin(profile_data.hospital_id))]]

\* create_user: the user row is flushed, the profile row is built from the role,
\* and both are committed; an exception on the way leaves the session to be
\* closed by get_db.  The result is [ok, id, db].
create_user(d, user, profile_data) ==
    LET id == FreshId(d)
        with_user == [d EXCEPT !.users =
                         @ @@ (id :> User(user.email, get_password_hash(user.password), user.role))]
        failed_at_flush == [ok |-> FALSE, id |-> None, db |-> db_close(d, d)]
        failed == [ok |-> FALSE, id |-> None, db |-> db_close(d, with_user)]
    IN
    \* db.flush(): users.email is unique
    IF get_user_by_email(d, user.email) # {} THEN failed_at_flush
    ELSE IF user.role = "Patient"
    THEN \* PatientProfile(**profile_data): a keyword that is no column raises TypeError
         IF profile_data.kind # "patient" THEN failed
         ELSE [ok |-> TRUE, id |-> id,
               db |-> db_commit(d, [with_user EXCEPT !.patient_profiles =
                                       @ @@ (id :> PatientProfile(profile_data.first_name))])]
    ELSE IF user.role = "Doctor"
    THEN \* Doctor(**profile_data); at commit license_number is unique and not null,
         \* hospital_id references hospitals.id
         IF profile_data.kind # "doctor" THEN failed
         ELSE IF \E o \in DOMAIN d.doctors :
                    d.doctors[o].license_number = profile_data.license_number
         THEN failed
         ELSE IF profile_data.hospital_id \notin DOMAIN d.hospitals THEN failed
         ELSE [ok |-> TRUE, id |-> id,
               db |-> db_commit(d, [with_user EXCEPT !.doctors =
                                       @ @@ (id :> Doctor(profile_data.hospital_id,
                                                          profile_data.license_number))])]
    ELSE IF user.role = "Hospital Admin"
    THEN IF profile_data.kind # "admin" THEN failed
         ELSE IF profile_data.hospital_id \notin DOMAIN d.hospitals THEN failed
         ELSE [ok |-> TRUE, id |-> id,
               db |-> db_commit(d, [with_user EXCEPT !.hospital_admins =
                                       @ @@ (id :> HospitalAdmin(profile_data.hospital_id))])]
    \* raise ValueError("Invalid user role.")
    ELSE failed

\* register_user without the comparison of the role with Patient
register_user_any_role(d, user_in, patient_profile_in) ==
    IF ~UserCreateValid(user_in) THEN Result(422, None, {}, d)
    ELSE IF get_user_by_email(d, user_in.email) # {} THEN Result(400, None, {}, d)
    ELSE LET new_user == create_user(d, user_in, patient_profile_in) IN
         IF new_user.ok THEN Result(201, None, {new_user.id}, new_user.db)
         ELSE Result(500, None, {}, new_user.db)

register_user(d, user_in, patient_profile_in) ==
    IF ~UserCreateValid(user_in) THEN Result(422, None, {}, d)
    ELSE IF user_in.role # "Patient" THEN Result(400, None, {}, d)
    ELSE IF get_user_by_email(d, user_in.email) # {} THEN Result(400, None, {}, d)
    ELSE LET new_user == create_user(d, user_in, patient_profile_in) IN
         IF new_user.ok THEN Result(201, None, {new_user.id}, new_user.db)
         ELSE Result(500, None, {}, new_user.db)

\* the token is the body; the caller is the identity that logged in
\* login_for_access_token that does not verify the password
login_for_access_token_unverified(d, username, password, t) ==
    LET user == get_user_by_email(d, username) IN
    IF user = {} THEN Result(401, None, {}, d)
    ELSE LET u == CHOOSE x \in user : TRUE IN
         Result(200, u,
                {create_access_token(PyUuid(u), d.users[u].role,
                                     Minutes(ACCESS_TOKEN_EXPIRE_MINUTES), t)},
                d)

login_for_access_token(d, username, password, t) ==
    LET user == get_user_by_email(d, username) IN
    IF user = {} THEN Result(401, None, {}, d)
    ELSE LET u == CHOOSE x \in user : TRUE
             verified == verify_password(password, d.users[u].password_hash)
         IN
         \* an exception of verify_password is not caught
         IF verified.raises # None THEN Result(500, None, {}, d)
         ELSE IF ~verified.value THEN Result(401, None, {}, d)
         ELSE
         Result(200, u,
                {create_access_token(PyUuid(u), d.users[u].role,
                                     Minutes(ACCESS_TOKEN_EXPIRE_MINUTES), t)},
                d)

read_users_me(d, token, t) ==
    LET current_user == get_current_user_and_role(d, token, t) IN
    IF current_user.status # 200 THEN Result(current_user.status, None, {}, d)
    ELSE Result(200, current_user.user, {d.users[current_user.user]}, d)

\* create_staff_user without the comparison of the two hospitals
create_staff_user_any_hospital(d, token, user_in, profile_in, t) ==
    LET current_admin == AdminUser(d, token, t) IN
    IF current_admin.status # 200
    THEN Result(current_admin.status, current_admin.user, {}, d)
    ELSE IF ~UserCreateValid(user_in) THEN Result(422, current_admin.user, {}, d)
    ELSE IF user_in.role = "Patient" THEN Result(400, current_admin.user, {}, d)
    ELSE IF get_user_by_email(d, user_in.email) # {} THEN Result(400, current_admin.user, {}, d)
    ELSE LET new_user == create_user(d, user_in, profile_in) IN
         IF new_user.ok THEN Result(201, current_admin.user, {new_user.id}, new_user.db)
         ELSE Result(500, current_admin.user, {}, new_user.db)

create_staff_user(d, token, user_in, profile_in, t) ==
    LET current_admin == AdminUser(d, token, t) IN
    IF current_admin.status # 200
    THEN Result(current_admin.status, current_admin.user, {}, d)
    ELSE IF ~UserCreateValid(user_in) THEN Result(422, current_admin.user, {}, d)
    ELSE IF user_in.role = "Patient" THEN Result(400, current_admin.user, {}, d)
    ELSE IF get_user_by_email(d, user_in.email) # {} THEN Result(400, current_admin.user, {}, d)
    \* admin_details is None: the attribute access raises
    ELSE IF current_admin.user \notin DOMAIN d.hospital_admins
    THEN Result(500, current_admin.user, {}, d)
    ELSE IF profile_in.hospital_id # d.hospital_admins[current_admin.user].hospital_id
    THEN Result(403, current_admin.user, {}, d)
    ELSE LET new_user == create_user(d, user_in, profile_in) IN
         IF new_user.ok THEN Result(201, current_admin.user, {new_user.id}, new_user.db)
         ELSE Result(500, current_admin.user, {}, new_user.db)

\* update_patient_profile whose query has no filter on user_id: first() is the
\* first row of the table
update_patient_profile_first_row(d, token, profile_in, t) ==
    LET current_user == AnyAuthenticatedUser(d, token, t) IN
    IF current_user.status # 200
    THEN Result(current_user.status, current_user.user, {}, d)
    ELSE IF d.users[current_user.user].role # "Patient"
    THEN Result(403, current_user.user, {}, d)
    ELSE IF DOMAIN d.patient_profiles = {}
    THEN Result(404, current_user.user, {}, d)
    ELSE LET first == CHOOSE u \in DOMAIN d.patient_profiles : TRUE
         IN Result(200, current_user.user, {first},
                   [d EXCEPT !.patient_profiles[first].first_name = profile_in.first_name])

update_patient_profile(d, token, profile_in, t) ==
    LET current_user == AnyAuthenticatedUser(d, token, t) IN
    IF current_user.status # 200
    THEN Result(current_user.status, current_user.user, {}, d)
    ELSE IF d.users[current_user.user].role # "Patient"
    THEN Result(403, current_user.user, {}, d)
    ELSE IF current_user.user \notin DOMAIN d.patient_profiles
    THEN Result(404, current_user.user, {}, d)
    ELSE Result(200, current_user.user, {current_user.user},
                [d EXCEPT !.patient_profiles[current_user.user].first_name =
                             profile_in.first_name])

\* Schema.model_validate(db_profile): the profile read from a row; validating
\* None (no row) raises ValidationError
model_validate(kind, table, user_id) ==
    IF user_id \in DOMAIN table
    THEN Returned({[kind |-> kind, user_id |-> user_id, row |-> table[user_id]]})
    ELSE Raised("ValidationError")

\* get_user_profile: the value returned is a set, empty for None
get_user_profile(d, user) ==
    IF d.users[user].role = "Patient"
    THEN model_validate("PatientProfile", d.patient_profiles, user)
    ELSE IF d.users[user].role = "Doctor"
    THEN model_validate("Doctor", d.doctors, user)
    ELSE IF d.users[user].role = "Hospital Admin"
    THEN model_validate("HospitalAdmin", d.hospital_admins, user)
    ELSE Returned({})

read_current_user_profile(d, token, t) ==
    LET current_user == AnyAuthenticatedUser(d, token, t) IN
    IF current_user.status # 200
    THEN Result(current_user.status, current_user.user, {}, d)
    ELSE LET profile == get_user_profile(d, current_user.user) IN
         IF profile.raises # None THEN Result(500, current_user.user, {}, d)
         ELSE IF profile.value = {} THEN Result(404, current_user.user, {}, d)
         ELSE Result(200, current_user.user, profile.value, d)

\* ILIKE compares without regard to case: the letters of a string of the model,
\* in lower case
LowerLetters(str) ==
    CASE str = "Alice" -> <<"a", "l", "i", "c", "e">>
      [] str = "Bob" -> <<"b", "o", "b">>
      [] str = "alice@example.com" -> <<"a", "l", "i", "c", "e", "@", "e", "x">>
      [] str = "bob@example.com" -> <<"b", "o", "b", "@", "e", "x">>
      [] str = "p1" -> <<"p", "1">>
      [] str = "p2" -> <<"p", "2">>
      [] str = "P1" -> <<"p", "1">>
      [] str = "ob" -> <<"o", "b">>
      [] str = "zz" -> <<"z", "z">>
      [] str = "a" -> <<"a">>
      [] str = "  " -> <<" ", " ">>
      [] OTHER -> <<"?">>

\* query.strip()
Strip(letters) == SelectSeq(letters, LAMBDA c : c # " ")

\* column ILIKE '%query%'
ILike(column, query) ==
    LET hay == LowerLetters(column)
        needle == LowerLetters(query)
    IN \E k \in 0..(Len(hay) - Len(needle)) :
          SubSeq(hay, k + 1, k + Len(needle)) = needle

\* crud search_patients: the profiles whose first name matches, and the
\* profiles of the Patient identities whose email matches
search_patients(d, query) ==
    LET profiles == {u \in DOMAIN d.patient_profiles :
                        ILike(d.patient_profiles[u].first_name, query)}
        users_by_email == {u \in DOMAIN d.users :
                              d.users[u].role = "Patient" /\ ILike(d.users[u].email, query)}
        new_user_ids == users_by_email \ profiles
    IN profiles \cup (new_user_ids \cap DOMAIN d.patient_profiles)

search_patients_endpoint(d, token, query, t) ==
    LET current_user == DoctorUser(d, token, t) IN
    IF current_user.status # 200
    THEN Result(current_user.status, current_user.user, {}, d)
    ELSE IF Len(Strip(LowerLetters(query))) < 2
    THEN Result(400, current_user.user, {}, d)
    ELSE LET results == search_patients(d, query) IN
         IF results = {} THEN Result(404, current_user.user, {}, d)
         ELSE Result(200, current_user.user, results, d)

count_all_patients(d) ==
    Cardinality({u \in DOMAIN d.users : d.users[u].role = "Patient"})
count_all_medical_records(d) == Cardinality(DOMAIN d.medical_records)
count_hospital_doctors(d, hospital_id) ==
    Cardinality({u \in DOMAIN d.doctors : d.doctors[u].hospital_id = hospital_id})

get_admin_analytics(d, token, t) ==
    LET current_admin == AdminUser(d, token, t) IN
    IF current_admin.status # 200
    THEN Result(current_admin.status, current_admin.user, {}, d)
    ELSE IF current_admin.user \notin DOMAIN d.hospital_admins
    THEN Result(404, current_admin.user, {}, d)
    ELSE LET hospital_id == d.hospital_admins[current_admin.user].hospital_id IN
         Result(200, current_admin.user,
                {[total_patients |-> count_all_patients(d),
                  total_records |-> count_all_medical_records(d),
                  hospital_staff_count |-> count_hospital_doctors(d, hospital_id),
                  hospital_id |-> hospital_id]},
                d)

---------------------------------------------------------------------------
(* Hospitals: app/crud/hospital.py and app/api/endpoints/hospitals.py *)

get_hospital(d, hospital_id) ==
    IF hospital_id \in DOMAIN d.hospitals THEN {hospital_id} ELSE {}

NameTaken(d, name, except) ==
    \E h \in DOMAIN d.hospitals \ except : d.hospitals[h].name = name

\* crud create_hospital: [ok, id, db]; hospitals.name is unique, is_active defaults
\* to True
crud_create_hospital(d, hospital) ==
    LET id == NextKey(d.hospitals) IN
    IF NameTaken(d, hospital.name, {}) THEN [ok |-> FALSE, id |-> id, db |-> d]
    ELSE [ok |-> TRUE, id |-> id,
          db |-> [d EXCEPT !.hospitals = @ @@ (id :> Hospital(hospital.name, TRUE))]]

\* crud update_hospital: every field the request sets is assigned; is_active is
\* optional (the empty set when the request leaves it out)
crud_update_hospital(d, hospital_id, hospital_in) ==
    LET row == d.hospitals[hospital_id]
        updated == Hospital(hospital_in.name,
                            IF hospital_in.is_active = {} THEN row.is_active
                            ELSE CHOOSE b \in hospital_in.is_active : TRUE)
    IN
    IF NameTaken(d, hospital_in.name, {hospital_id}) THEN [ok |-> FALSE, db |-> d]
    ELSE [ok |-> TRUE, db |-> [d EXCEPT !.hospitals[hospital_id] = updated]]

create_hospital(d, token, hospital_in, t) ==
    LET current_admin == AdminUser(d, token, t) IN
    IF current_admin.status # 200
    THEN Result(current_admin.status, current_admin.user, {}, d)
    ELSE LET made == crud_create_hospital(d, hospital_in) IN
         IF made.ok THEN Result(201, current_admin.user, {made.id}, made.db)
         ELSE Result(500, current_admin.user, {}, d)

read_hospital(d, token, hospital_id, t) ==
    LET current_user == AdminUser(d, token, t) IN
    IF current_user.status # 200
    THEN Result(current_user.status, current_user.user, {}, d)
    ELSE IF get_hospital(d, hospital_id) = {} THEN Result(404, current_user.user, {}, d)
    ELSE Result(200, current_user.user, {hospital_id}, d)

\* crud get_hospitals and the endpoint that lists them
get_hospitals(d) == DOMAIN d.hospitals

read_hospitals(d, token, t) ==
    LET current_user == AdminUser(d, token, t) IN
    IF current_user.status # 200
    THEN Result(current_user.status, current_user.user, {}, d)
    ELSE Result(200, current_user.user, get_hospitals(d), d)

\* update_hospital that writes the row before it compares the two hospitals
update_hospital_write_first(d, token, hospital_id, hospital_in, t) ==
    LET current_admin == AdminUser(d, token, t) IN
    IF current_admin.status # 200
    THEN Result(current_admin.status, current_admin.user, {}, d)
    ELSE IF get_hospital(d, hospital_id) = {} THEN Result(404, current_admin.user, {}, d)
    ELSE IF current_admin.user \notin DOMAIN d.hospital_admins
    THEN Result(500, current_admin.user, {}, d)
    ELSE LET done == crud_update_hospital(d, hospital_id, hospital_in) IN
         IF ~done.ok THEN Result(500, current_admin.user, {}, d)
         ELSE IF d.hospital_admins[current_admin.user].hospital_id # hospital_id
         THEN Result(403, current_admin.user, {}, done.db)
         ELSE Result(200, current_admin.user, {hospital_id}, done.db)

\* update_hospital without the comparison of the two hospitals
update_hospital_unscoped(d, token, hospital_id, hospital_in, t) ==
    LET current_admin == AdminUser(d, token, t) IN
    IF current_admin.status # 200
    THEN Result(current_admin.status, current_admin.user, {}, d)
    ELSE IF get_hospital(d, hospital_id) = {} THEN Result(404, current_admin.user, {}, d)
    ELSE LET done == crud_update_hospital(d, hospital_id, hospital_in) IN
         IF done.ok THEN Result(200, current_admin.user, {hospital_id}, done.db)
         ELSE Result(500, current_admin.user, {}, d)

update_hospital(d, token, hospital_id, hospital_in, t) ==
    LET current_admin == AdminUser(d, token, t) IN
    IF current_admin.status # 200
    THEN Result(current_admin.status, current_admin.user, {}, d)
    ELSE IF get_hospital(d, hospital_id) = {} THEN Result(404, current_admin.user, {}, d)
    \* admin_details is None: the attribute access raises
    ELSE IF current_admin.user \notin DOMAIN d.hospital_admins
    THEN Result(500, current_admin.user, {}, d)
    ELSE IF d.hospital_admins[current_admin.user].hospital_id # hospital_id
    THEN Result(403, current_admin.user, {}, d)
    ELSE LET done == crud_update_hospital(d, hospital_id, hospital_in) IN
         IF done.ok THEN Result(200, current_admin.user, {hospital_id}, done.db)
         ELSE Result(500, current_admin.user, {}, d)

---------------------------------------------------------------------------
(* Requests.  A bearer token is any token in flight or one a client makes up. *)

ATTACKER_KEY == "a key that is not the server's"

Tokens == {i.jwt : i \in issued}

\* a token in flight with its subject or its expiry rewritten under the old
\* signature, and tokens signed with another key (one of them without a subject)
Forged ==
    {[j EXCEPT !.sub = "a1"] : j \in Tokens}
    \cup {[j EXCEPT !.exp = j.exp + ACCESS_TOKEN_EXPIRE_MINUTES] : j \in Tokens}
    \cup {jwt_encode([sub |-> "a1", role |-> "Hospital Admin",
                      exp |-> now + ACCESS_TOKEN_EXPIRE_MINUTES], ATTACKER_KEY),
          jwt_encode([sub |-> Missing, role |-> "Hospital Admin",
                      exp |-> now + ACCESS_TOKEN_EXPIRE_MINUTES], ATTACKER_KEY)}

Presentable == Tokens \cup Forged

\* the bearer tokens the endpoints are called with: every token in flight and a
\* forged one (the resolver is the same for all of them, and ReadUsersMe is
\* called with every forged token)
Bearers ==
    Tokens \cup {jwt_encode([sub |-> "a1", role |-> "Hospital Admin",
                             exp |-> now + ACCESS_TOKEN_EXPIRE_MINUTES], ATTACKER_KEY)}

\* role strings a client may send: the three roles and one in another case
RoleInputs == Roles \cup {"doctor"}

UserCreate(email, password, role) == [email |-> email, password |-> password, role |-> role]

RegisterRequests ==
    {UserCreate(e, Password123, r) : e \in NewEmails, r \in RoleInputs}
    \cup {UserCreate("p1", Password123, "Patient"),
          UserCreate("p1", Password123, "Doctor"),
          UserCreate("alice@example.com", ShortPassword, "Patient"),
          UserCreate("alice@example.com", LongPassword, "Patient")}

PatientProfileInputs == [kind : {"patient"}, first_name : {"Alice", "Bob"}]

\* DoctorCreate and HospitalAdminCreate bodies
DoctorCreate(hospital_id, license_number) ==
    [kind |-> "doctor", hospital_id |-> hospital_id, license_number |-> license_number]
HospitalAdminCreate(hospital_id) == [kind |-> "admin", hospital_id |-> hospital_id]

\* staff requests: <<user_in, profile_in>>
StaffRequests ==
    ({UserCreate("alice@example.com", Password123, "Doctor")}
        \X {DoctorCreate(1, "LIC-3"), DoctorCreate(2, "LIC-3"), DoctorCreate(1, "LIC-1"),
            HospitalAdminCreate(1)})
    \cup ({UserCreate("alice@example.com", Password123, "Hospital Admin")}
        \X {HospitalAdminCreate(1), HospitalAdminCreate(2), DoctorCreate(1, "LIC-3")})
    \cup ({UserCreate("alice@example.com", Password123, "Patient"),
           UserCreate("alice@example.com", Password123, "doctor"),
           UserCreate("alice@example.com", ShortPassword, "Doctor")}
        \X {DoctorCreate(1, "LIC-3")})
    \cup ({UserCreate("d1", Password123, "Doctor")}
        \X {DoctorCreate(1, "LIC-3"), DoctorCreate(2, "LIC-3")})
    \cup ({UserCreate("bob@example.com", Password123, "Doctor")}
        \X {DoctorCreate(2, "LIC-4")})

\* patient ids a request may name: patients, an identity that is no patient, and a
\* uuid of no identity
PatientIdInputs == DOMAIN db.patient_profiles \cup {"d1", GhostId}

\* record bodies: the patient, and a doctor_id and hospital_id the client adds
RecordBodies ==
    [patient_id : PatientIdInputs, doctor_id : {"d2"}, hospital_id : {2}]
    \cup [patient_id : {"p1"}, doctor_id : {"d1"}, hospital_id : {1}]

RecordIdInputs == DOMAIN db.medical_records \cup {NextKey(db.medical_records)}
HospitalIdInputs == DOMAIN db.hospitals \cup {NextKey(db.hospitals)}

HospitalCreateInputs == [name : {"General", "Mercy"}]
HospitalUpdateInputs == [name : {"General", "Mercy"}, is_active : {{}, {FALSE}}]

\* search strings: one that matches a first name, one that matches an email in
\* another case, one that matches nothing, and two that are too short
QueryInputs == {"ob", "P1", "zz", "a", "  "}

\* what the model keeps of a request that changed the store or issued a token
Committed(op, r) == [op |-> op, status |-> r.status, caller |-> r.caller, body |-> r.body]

\* a request answered with r.  The response is a function of the store, the
\* request and the clock; a request that changes nothing leaves the state as it
\* is.  A row is added only while the model has room.
Answer(op, r) ==
    /\ Size(r.db, issued) > Size(db, issued) => Room
    /\ db' = r.db
    /\ last' = IF r.db # db THEN Committed(op, r) ELSE last
    /\ UNCHANGED sessions

---------------------------------------------------------------------------
(* Actions: one per endpoint *)

RegisterUser ==
    \E user_in \in RegisterRequests, profile_in \in PatientProfileInputs :
        /\ Answer("register_user", register_user(db, user_in, profile_in))
        /\ UNCHANGED <<issued, now>>

\* the issue log keeps, for each token, when it was issued and what was asked for
IssueEntry(jwt, subject, role, expires_delta) ==
    [jwt |-> jwt, at |-> now, sub |-> subject, role |-> role, ttl |-> expires_delta]

\* the passwords a login is tried with: the seeded one, the one registrations
\* use, and one longer than bcrypt's 72 bytes
ShortLoginPasswords == {TEST_PASS, Password123}
LoginPasswords == ShortLoginPasswords \cup {LongPassword}

LoginWhile(room, passwords) ==
    \E username \in Emails \cup {"nobody"}, password \in passwords :
        LET r == login_for_access_token(db, username, password, now)
            new == {IssueEntry(j, PyUuid(r.caller), db.users[r.caller].role,
                               Minutes(ACCESS_TOKEN_EXPIRE_MINUTES)) : j \in r.body}
        IN
        /\ new \ issued # {} => room
        /\ issued' = issued \cup new
        /\ last' = IF new \ issued # {} THEN Committed("login", r) ELSE last
        /\ UNCHANGED <<db, now, sessions>>

Login == LoginWhile(Room, LoginPasswords)

ReadUsersMe ==
    \E token \in Presentable :
        /\ Answer("read_users_me", read_users_me(db, token, now))
        /\ UNCHANGED <<issued, now>>

CreateStaffUser ==
    \E token \in Bearers, req \in StaffRequests :
        /\ Answer("create_staff_user", create_staff_user(db, token, req[1], req[2], now))
        /\ UNCHANGED <<issued, now>>

UpdatePatientProfile ==
    \E token \in Bearers, profile_in \in PatientProfileInputs :
        /\ Answer("update_patient_profile", update_patient_profile(db, token, profile_in, now))
        /\ UNCHANGED <<issued, now>>

CreateRecord ==
    \E token \in Bearers, body \in RecordBodies :
        /\ Answer("create_record", create_record(db, token, body, now))
        /\ UNCHANGED <<issued, now>>

ReadRecordDetail ==
    \E token \in Bearers, record_id \in RecordIdInputs :
        /\ Answer("read_record_detail", read_record_detail(db, token, record_id, now))
        /\ UNCHANGED <<issued, now>>

ReadPatientRecords ==
    \E token \in Bearers, patient_id \in PatientIdInputs :
        /\ Answer("read_patient_records", read_patient_records(db, token, patient_id, now))
        /\ UNCHANGED <<issued, now>>

CreateHospital ==
    \E token \in Bearers, hospital_in \in HospitalCreateInputs :
        /\ Answer("create_hospital", create_hospital(db, token, hospital_in, now))
        /\ UNCHANGED <<issued, now>>

ReadHospital ==
    \E token \in Bearers, hospital_id \in HospitalIdInputs :
        /\ Answer("read_hospital", read_hospital(db, token, hospital_id, now))
        /\ UNCHANGED <<issued, now>>

UpdateHospital ==
    \E token \in Bearers, hospital_id \in HospitalIdInputs,
       hospital_in \in HospitalUpdateInputs :
        /\ Answer("update_hospital", update_hospital(db, token, hospital_id, hospital_in, now))
        /\ UNCHANGED <<issued, now>>

ReadHospitals ==
    \E token \in Bearers :
        /\ Answer("read_hospitals", read_hospitals(db, token, now))
        /\ UNCHANGED <<issued, now>>

SearchPatientsEndpoint ==
    \E token \in Bearers, query \in QueryInputs :
        /\ Answer("search_patients_endpoint", search_patients_endpoint(db, token, query, now))
        /\ UNCHANGED <<issued, now>>

GetAdminAnalytics ==
    \E token \in Bearers :
        /\ Answer("get_admin_analytics", get_admin_analytics(db, token, now))
        /\ UNCHANGED <<issued, now>>

ReadCurrentUserProfile ==
    \E token \in Bearers :
        /\ Answer("read_current_user_profile", read_current_user_profile(db, token, now))
        /\ UNCHANGED <<issued, now>>

\* a session slot with no request in flight
Idle == [pc |-> "idle"]
NoSessions == [s \in 1..MaxSessions |-> Idle]

Nothing == [op |-> "none", status |-> 0, caller |-> None, body |-> {}]

Init ==
    /\ db = SeedDb
    /\ issued = {}
    /\ now = 0
    /\ last = Nothing
    /\ sessions = NoSessions

\* The API at one instant: every request is made within the lifetime of the tokens
\* in flight.  The passage of time is the subject of TokenSpec.
Next ==
    \/ RegisterUser
    \/ Login
    \/ ReadUsersMe
    \/ CreateStaffUser
    \/ UpdatePatientProfile
    \/ CreateRecord
    \/ ReadRecordDetail
    \/ ReadPatientRecords
    \/ CreateHospital
    \/ ReadHospital
    \/ UpdateHospital
    \/ ReadHospitals
    \/ SearchPatientsEndpoint
    \/ GetAdminAnalytics
    \/ ReadCurrentUserProfile

Spec == Init /\ [][Next]_vars

---------------------------------------------------------------------------
(* The token service and the resolver over time: tokens are issued by login *)
(* and by direct calls of create_access_token, the clock moves, and an      *)
(* identity may be removed from the store.                                  *)

\* <<subject, role, expires_delta>> of a call of create_access_token
IssueInputs ==
    ({PyUuid("a1")} \X {"Hospital Admin"}
        \X {NoDelta, Minutes(0), Minutes(1), Minutes(-1)})
    \cup {<<PyUuid("p1"), "Hospital Admin", NoDelta>>,
          <<PyUuid(GhostId), "Patient", NoDelta>>,
          <<PyStr("not-a-uuid"), "Patient", NoDelta>>,
          <<PyNone, "Patient", NoDelta>>,
          <<PyUuid("a1"), Missing, NoDelta>>}

IssueToken ==
    \E in \in IssueInputs :
        /\ Cardinality(issued) < MaxTokens
        /\ issued' = issued \cup
              {IssueEntry(create_access_token(in[1], in[2], in[3], now), in[1], in[2], in[3])}
        /\ UNCHANGED <<db, now, last, sessions>>

LoginT == LoginWhile(Cardinality(issued) < MaxTokens, ShortLoginPasswords)

\* the clock moves to the expiry of a token in flight, to the minute before it
\* or to the minute after it
Tick ==
    \E i \in issued, step \in {-1, 0, 1} :
        /\ i.jwt.exp + step > now
        /\ now' = i.jwt.exp + step
        /\ UNCHANGED <<db, issued, last, sessions>>

\* a row of users is deleted in the database: the profile rows go with it
\* (ondelete CASCADE), unless a medical record refers to the profile (RESTRICT)
Without(f, k) == [x \in DOMAIN f \ {k} |-> f[x]]
delete_user(d, u) ==
    IF \E r \in DOMAIN d.medical_records :
          u \in {d.medical_records[r].patient_id, d.medical_records[r].doctor_id}
    THEN d
    ELSE [d EXCEPT !.users = Without(@, u),
                   !.patient_profiles = Without(@, u),
                   !.doctors = Without(@, u),
                   !.hospital_admins = Without(@, u)]

DeleteUser ==
    \E u \in DOMAIN db.users :
        /\ db' = delete_user(db, u)
        /\ UNCHANGED <<issued, now, last, sessions>>

NextToken ==
    \/ IssueToken
    \/ LoginT
    \/ ReadUsersMe
    \/ Tick
    \/ DeleteUser

TokenSpec == Init /\ [][NextToken]_vars



---------------------------------------------------------------------------
(* The store written by other hands than the API: a role is changed in the     *)
(* users table while tokens are in flight.  Under StoreSpec every token is     *)
(* issued by login, so it carries the role stored when it was issued.          *)

\* a role string of no profile kind
UnknownRole == "Nurse"

\* the identities whose rows are written directly
WrittenIds == {"a1", "d1"}

\* UPDATE users SET role = ... WHERE id = ...
SetRole ==
    \E u \in WrittenIds \cap DOMAIN db.users, role \in Roles \cup {UnknownRole} :
        /\ db' = [db EXCEPT !.users[u].role = role]
        /\ UNCHANGED <<issued, now, last, sessions>>

\* DELETE FROM <profile table> WHERE user_id = ...: refused while a medical
\* record refers to the profile (ondelete RESTRICT)
delete_profile(d, u) ==
    IF \E r \in DOMAIN d.medical_records :
          u \in {d.medical_records[r].patient_id, d.medical_records[r].doctor_id}
    THEN d
    ELSE [d EXCEPT !.patient_profiles = Without(@, u),
                   !.doctors = Without(@, u),
                   !.hospital_admins = Without(@, u)]

DeleteProfile ==
    \E u \in WrittenIds \cap DOMAIN db.users :
        /\ db' = delete_profile(db, u)
        /\ UNCHANGED <<issued, now, last, sessions>>

\* UPDATE users SET password_hash = <a string that is no digest> WHERE id = ...
SetPasswordHash ==
    \E u \in WrittenIds \cap DOMAIN db.users :
        /\ db' = [db EXCEPT !.users[u].password_hash = MalformedDigest]
        /\ UNCHANGED <<issued, now, last, sessions>>

NextStore ==
    \/ LoginT
    \/ SetRole
    \/ DeleteProfile
    \/ SetPasswordHash
    \/ ReadCurrentUserProfile
    \/ ReadUsersMe
    \/ ReadHospitals
    \/ GetAdminAnalytics
    \/ SearchPatientsEndpoint

StoreSpec == Init /\ [][NextStore]_vars

---------------------------------------------------------------------------
(* Concurrent creation of identities.  register_user and create_staff_user  *)
(* are plain def endpoints, which run on worker threads, each with a        *)
(* session of its own (get_db).  A request is split where its transaction   *)
(* meets the others: the get_user_by_email query, which reads committed     *)
(* rows; db.flush(), the INSERT into users under the unique index on email; *)
(* and db.commit().                                                         *)

\* the rows of users written by the open transactions other than s
Pending(ss, s) ==
    {ss[x].row : x \in {y \in DOMAIN ss \ {s} : ss[y].pc = "flushed"}}

\* an INSERT into a users table that has no unique index on email
users_insert_without_unique_index(d, pending, email) == "ok"

\* INSERT into users (email unique): a committed row with the email is a
\* violation at once; an uncommitted row of another transaction with the email
\* makes the statement wait for the end of that transaction
users_insert(d, pending, email) ==
    IF get_user_by_email(d, email) # {} THEN "IntegrityError"
    ELSE IF \E r \in pending : r.email = email THEN "waits"
    ELSE "ok"

\* the default of User.id among concurrent transactions: a uuid4 that neither
\* the store nor an open transaction holds
FreshIdAmong(d, pending) ==
    LET free == {i \in 1..Len(NewIdPool) :
                    NewIdPool[i] \notin DOMAIN d.users \cup {r.id : r \in pending}}
    IN NewIdPool[CHOOSE i \in free : \A j \in free : i <= j]

\* create_user after db.flush(): the profile row is built from the role and
\* both rows are committed, or an exception leaves the session to be closed.
\* The result is [ok, db].
create_user_after_flush(d, id, user, profile_data) ==
    LET with_user == [d EXCEPT !.users =
                         @ @@ (id :> User(user.email, get_password_hash(user.password), user.role))]
        failed == [ok |-> FALSE, db |-> db_close(d, with_user)]
    IN
    IF user.role = "Patient"
    THEN IF profile_data.kind # "patient" THEN failed
         ELSE [ok |-> TRUE,
               db |-> db_commit(d, [with_user EXCEPT !.patient_profiles =
                                       @ @@ (id :> PatientProfile(profile_data.first_name))])]
    ELSE IF user.role = "Doctor"
    THEN IF profile_data.kind # "doctor" THEN failed
         ELSE IF \E o \in DOMAIN d.doctors :
                    d.doctors[o].license_number = profile_data.license_number
         THEN failed
         ELSE IF profile_data.hospital_id \notin DOMAIN d.hospitals THEN failed
         ELSE [ok |-> TRUE,
               db |-> db_commit(d, [with_user EXCEPT !.doctors =
                                       @ @@ (id :> Doctor(profile_data.hospital_id,
                                                          profile_data.license_number))])]
    ELSE IF user.role = "Hospital Admin"
    THEN IF profile_data.kind # "admin" THEN failed
         ELSE IF profile_data.hospital_id \notin DOMAIN d.hospitals THEN failed
         ELSE [ok |-> TRUE,
               db |-> db_commit(d, [with_user EXCEPT !.hospital_admins =
                                       @ @@ (id :> HospitalAdmin(profile_data.hospital_id))])]
    ELSE failed

\* the checks of register_user before create_user
register_user_checked(d, user_in) ==
    /\ UserCreateValid(user_in)
    /\ user_in.role = "Patient"
    /\ get_user_by_email(d, user_in.email) = {}

\* the checks of create_staff_user before create_user
create_staff_user_checked(d, token, user_in, profile_in, t) ==
    LET current_admin == AdminUser(d, token, t) IN
    /\ current_admin.status = 200
    /\ UserCreateValid(user_in)
    /\ user_in.role # "Patient"
    /\ get_user_by_email(d, user_in.email) = {}
    /\ current_admin.user \in DOMAIN d.hospital_admins
    /\ profile_in.hospital_id = d.hospital_admins[current_admin.user].hospital_id

\* the requests that race: registrations and staff creations for the two new
\* addresses
RaceRegisterRequests ==
    {UserCreate(e, Password123, "Patient") : e \in {"alice@example.com", "bob@example.com"}}
RaceStaffRequests ==
    {<<UserCreate("alice@example.com", Password123, "Doctor"), DoctorCreate(1, "LIC-3")>>,
     <<UserCreate("bob@example.com", Password123, "Doctor"), DoctorCreate(1, "LIC-3")>>,
     <<UserCreate("alice@example.com", Password123, "doctor"), DoctorCreate(1, "LIC-3")>>}

\* the token login issues to the Hospital Admin a1
AdminToken ==
    create_access_token(PyUuid("a1"), "Hospital Admin",
                        Minutes(ACCESS_TOKEN_EXPIRE_MINUTES), now)

InFlight(op, caller, user_in, profile_in) ==
    [pc |-> "checked", op |-> op, caller |-> caller,
     user_in |-> user_in, profile_in |-> profile_in]

\* a register_user request passes its checks and enters create_user
BeginRegister ==
    \E s \in DOMAIN sessions, user_in \in RaceRegisterRequests,
       profile_in \in {p \in PatientProfileInputs : p.first_name = "Alice"} :
        /\ sessions[s] = Idle
        /\ register_user_checked(db, user_in)
        /\ sessions' = [sessions EXCEPT ![s] = InFlight("register_user", None, user_in, profile_in)]
        /\ UNCHANGED <<db, issued, now, last>>

\* a create_staff_user request passes its checks and enters create_user
BeginStaff ==
    \E s \in DOMAIN sessions, req \in RaceStaffRequests :
        /\ sessions[s] = Idle
        /\ create_staff_user_checked(db, AdminToken, req[1], req[2], now)
        /\ sessions' = [sessions EXCEPT ![s] = InFlight("create_staff_user", "a1", req[1], req[2])]
        /\ UNCHANGED <<db, issued, now, last>>

\* db.flush(): the row of users is written in the transaction, or the unique
\* index refuses it and the request ends in 500 with its session closed
Flush ==
    \E s \in DOMAIN sessions :
        /\ sessions[s].pc = "checked"
        /\ LET pending == Pending(sessions, s)
               outcome == users_insert(db, pending, sessions[s].user_in.email)
               row == [id |-> FreshIdAmong(db, pending), email |-> sessions[s].user_in.email]
           IN
           /\ outcome # "waits"
           /\ IF outcome = "ok"
              THEN /\ sessions' = [sessions EXCEPT ![s] =
                                      [pc |-> "flushed", op |-> @.op, caller |-> @.caller,
                                       user_in |-> @.user_in, profile_in |-> @.profile_in,
                                       row |-> row]]
                   /\ UNCHANGED last
              ELSE /\ sessions' = [sessions EXCEPT ![s] = Idle]
                   /\ last' = [op |-> sessions[s].op, status |-> 500,
                               caller |-> sessions[s].caller, body |-> {}]
        /\ UNCHANGED <<db, issued, now>>

\* the rest of create_user: the profile row and db.commit(), or an exception and
\* the rollback of the flushed row
Commit ==
    \E s \in DOMAIN sessions :
        /\ sessions[s].pc = "flushed"
        /\ LET made == create_user_after_flush(db, sessions[s].row.id, sessions[s].user_in,
                                               sessions[s].profile_in)
           IN
           /\ db' = made.db
           /\ last' = [op |-> sessions[s].op, status |-> IF made.ok THEN 201 ELSE 500,
                       caller |-> sessions[s].caller,
                       body |-> IF made.ok THEN {sessions[s].row.id} ELSE {}]
        /\ sessions' = [sessions EXCEPT ![s] = Idle]
        /\ UNCHANGED <<issued, now>>

NextRace ==
    \/ BeginRegister
    \/ BeginStaff
    \/ Flush
    \/ Commit

RaceSpec == Init /\ [][NextRace]_vars

---------------------------------------------------------------------------
(* Claims.  A holder is an entry of the issue log whose subject is an       *)
(* identity of the store; under Spec every token in flight was issued by    *)
(* login to the identity it names.                                          *)

Holders(role) ==
    {i \in issued : /\ i.jwt.sub \in DOMAIN db.users
                    /\ db.users[i.jwt.sub].role = role}

\* C1: a Patient identity that asks for the record list of another existing
\* patient, or for a single existing record of another patient, gets 403: not
\* 404, and no record data.
C1_PatientReadsOfOthersForbidden ==
    \A i \in Holders("Patient") :
        /\ \A q \in DOMAIN db.patient_profiles \ {i.jwt.sub} :
              LET r == read_patient_records(db, i.jwt, q, now) IN
              r.status = 403 /\ r.body = {} /\ r.db = db
        /\ \A id \in DOMAIN db.medical_records :
              (/\ db.medical_records[id].patient_id # i.jwt.sub
               /\ db.medical_records[id].patient_id \in DOMAIN db.patient_profiles)
              => LET r == read_record_detail(db, i.jwt, id, now) IN
                 r.status = 403 /\ r.body = {} /\ r.db = db

C1_Witness ==
    \E i \in Holders("Patient") :
        /\ \E q \in DOMAIN db.patient_profiles \ {i.jwt.sub} :
              read_patient_records(db, i.jwt, q, now).status = 403
        /\ \E id \in DOMAIN db.medical_records :
              /\ db.medical_records[id].patient_id # i.jwt.sub
              /\ read_record_detail(db, i.jwt, id, now).status = 403

\* C2: a Patient identity that asks for the record list of a patient id with no
\* patient profile gets 404.
C2_MissingPatientIsNotFound ==
    \A i \in Holders("Patient") :
        \A q \in PatientIdInputs \ DOMAIN db.patient_profiles :
            read_patient_records(db, i.jwt, q, now).status = 404

\* C3: every medical record carries the identity of a doctor and the hospital of
\* that doctor's profile; a record made by create_record carries the caller's
\* identity and the hospital of the caller's Doctor profile, whatever doctor_id
\* and hospital_id the request body carries.
C3_RecordStampedWithCreator ==
    /\ \A id \in DOMAIN db.medical_records :
          LET rec == db.medical_records[id] IN
          /\ rec.doctor_id \in DOMAIN db.doctors
          /\ rec.hospital_id = db.doctors[rec.doctor_id].hospital_id
    /\ last.op = "create_record" =>
          \A id \in last.body :
              /\ db.users[last.caller].role = "Doctor"
              /\ db.medical_records[id].doctor_id = last.caller
              /\ db.medical_records[id].hospital_id = db.doctors[last.caller].hospital_id
    /\ \A i \in issued, body \in RecordBodies :
          LET r == create_record(db, i.jwt, body, now) IN
          r.status = 201 =>
              \A id \in r.body :
                  /\ id \notin DOMAIN db.medical_records
                  /\ r.db.medical_records[id] =
                        MedicalRecord(body.patient_id, i.jwt.sub,
                                      db.doctors[i.jwt.sub].hospital_id)

\* a record was made from a body that names another doctor and another hospital
C3_Witness ==
    /\ last.op = "create_record"
    /\ \E id \in last.body :
          /\ db.medical_records[id].doctor_id = "d1"
          /\ db.medical_records[id].hospital_id = 1
          /\ db.medical_records[id].patient_id = "p2"

\* C4: update_hospital by the admin of hospital A on an existing hospital B # A
\* gives 403 and changes nothing; a hospital changes only by an update_hospital
\* whose caller is an admin of that very hospital.
C4_AdminUpdatesOwnHospitalOnly ==
    /\ \A i \in Holders("Hospital Admin") :
          \A b \in DOMAIN db.hospitals \ {db.hospital_admins[i.jwt.sub].hospital_id} :
              \A hospital_in \in HospitalUpdateInputs :
                  LET r == update_hospital(db, i.jwt, b, hospital_in, now) IN
                  r.status = 403 /\ r.db = db
    /\ \A token \in Presentable, h \in HospitalIdInputs, hospital_in \in HospitalUpdateInputs :
          LET r == update_hospital(db, token, h, hospital_in, now) IN
          r.db # db =>
              /\ r.status = 200
              /\ \E i \in Holders("Hospital Admin") :
                    i.jwt = token /\ db.hospital_admins[i.jwt.sub].hospital_id = h
              /\ \A o \in DOMAIN db.hospitals \ {h} : r.db.hospitals[o] = db.hospitals[o]
    /\ last.op = "update_hospital" =>
          /\ db.users[last.caller].role = "Hospital Admin"
          /\ last.body = {db.hospital_admins[last.caller].hospital_id}

C4_Witness ==
    /\ last.op = "update_hospital"
    /\ \E i \in Holders("Hospital Admin") :
          \E b \in DOMAIN db.hospitals \ {db.hospital_admins[i.jwt.sub].hospital_id} :
              \E hospital_in \in HospitalUpdateInputs :
                  /\ ~NameTaken(db, hospital_in.name, {b})
                  /\ update_hospital(db, i.jwt, b, hospital_in, now).status = 403

StaffRoles == {"Doctor", "Hospital Admin"}

\* the hospital of the profile a staff identity carries
StaffHospital(d, u) ==
    IF u \in DOMAIN d.doctors THEN d.doctors[u].hospital_id
    ELSE d.hospital_admins[u].hospital_id

\* C5 as stated: a create_staff_user request of a Hospital Admin that names a
\* hospital other than the admin's own ends in 403 and creates nothing.
C5_OtherHospitalAlways403 ==
    \A i \in Holders("Hospital Admin"), req \in StaffRequests :
        req[2].hospital_id # db.hospital_admins[i.jwt.sub].hospital_id =>
            LET r == create_staff_user(db, i.jwt, req[1], req[2], now) IN
            r.status = 403 /\ r.db = db

\* C5: a create_staff_user request of a Hospital Admin that names a hospital
\* other than the admin's own creates nothing; it ends in 403 unless the body is
\* refused before the hospital is compared: 422 for an invalid body, 400 for the
\* role Patient or an email already registered.  A staff identity is created by
\* create_staff_user only for a caller that is a Hospital Admin, in the hospital
\* of that admin's profile, and a caller that is no Hospital Admin creates nothing.
C5_StaffOnlyInAdminsHospital ==
    /\ \A i \in Holders("Hospital Admin"), req \in StaffRequests :
          req[2].hospital_id # db.hospital_admins[i.jwt.sub].hospital_id =>
              LET r == create_staff_user(db, i.jwt, req[1], req[2], now) IN
              /\ r.db = db
              /\ r.status = IF ~UserCreateValid(req[1]) THEN 422
                            ELSE IF req[1].role = "Patient" THEN 400
                            ELSE IF \E u \in DOMAIN db.users : db.users[u].email = req[1].email
                            THEN 400
                            ELSE 403
    /\ \A token \in Presentable, req \in StaffRequests :
          LET r == create_staff_user(db, token, req[1], req[2], now) IN
          r.db # db =>
              /\ r.status = 201
              /\ \E i \in Holders("Hospital Admin") :
                    /\ i.jwt = token
                    /\ \A u \in r.body :
                          /\ u \notin DOMAIN db.users
                          /\ r.db.users[u].role = req[1].role
                          /\ r.db.users[u].role \in StaffRoles
                          /\ StaffHospital(r.db, u) = db.hospital_admins[i.jwt.sub].hospital_id
    /\ last.op = "create_staff_user" =>
          /\ db.users[last.caller].role = "Hospital Admin"
          /\ \A u \in last.body :
                /\ db.users[u].role \in StaffRoles
                /\ StaffHospital(db, u) = db.hospital_admins[last.caller].hospital_id

\* an admin has created a staff identity, and a request of that admin for
\* another hospital is answered 403
C5_Witness ==
    /\ last.op = "create_staff_user"
    /\ \E i \in Holders("Hospital Admin"), req \in StaffRequests :
          /\ i.jwt.sub = last.caller
          /\ req[2].hospital_id # db.hospital_admins[i.jwt.sub].hospital_id
          /\ create_staff_user(db, i.jwt, req[1], req[2], now).status = 403

\* C6: register_user creates Patient identities only: a request with any other
\* role string is rejected and creates nothing, and an identity with a staff role
\* comes into the store only by a create_staff_user whose caller holds a token
\* and is a Hospital Admin.
C6_RegisterRefusesOtherRoles ==
    /\ \A user_in \in RegisterRequests, profile \in PatientProfileInputs :
          LET r == register_user(db, user_in, profile) IN
          /\ user_in.role # "Patient" => r.status \in {400, 422} /\ r.db = db
          /\ r.db # db =>
                /\ r.status = 201
                /\ \A u \in DOMAIN r.db.users \ DOMAIN db.users :
                      r.db.users[u].role = "Patient" /\ u \in DOMAIN r.db.patient_profiles
    /\ last.op = "register_user" =>
          \A u \in last.body : db.users[u].role = "Patient"

C6_StaffOnlyByAdmin ==
    \A u \in DOMAIN db'.users \ DOMAIN db.users :
        db'.users[u].role # "Patient" =>
            /\ last'.op = "create_staff_user"
            /\ last'.body = {u}
            /\ last'.caller \in DOMAIN db.users
            /\ db.users[last'.caller].role = "Hospital Admin"
            /\ \E i \in issued : i.jwt.sub = last'.caller

C6_SelfRegistrationIsPatientOnly ==
    [](C6_RegisterRefusesOtherRoles) /\ [][C6_StaffOnlyByAdmin]_vars

\* a patient has registered where a request for a staff role is refused
C6_Witness ==
    /\ last.op = "register_user"
    /\ last.status = 201
    /\ \E user_in \in RegisterRequests, profile \in PatientProfileInputs :
          /\ user_in.role \in StaffRoles
          /\ register_user(db, user_in, profile).status = 400

---------------------------------------------------------------------------
(* Claims about the token service, under TokenSpec *)

\* the ttl an issue asked for: 24 hours when none was given
AskedTtl(i) == IF i.ttl = NoDelta THEN ACCESS_TOKEN_EXPIRE_MINUTES ELSE DeltaValue(i.ttl)

Accepted(token) == get_current_user_and_role(db, token, now).status = 200

\* C7: a token issued with a ttl of zero, or with an expiry already in the past,
\* is not accepted: from its issue on it is refused as invalid.
C7_ZeroTtlNeverAccepted ==
    \A i \in issued :
        (i.ttl # NoDelta /\ DeltaValue(i.ttl) <= 0) =>
            /\ ~jwt_decode(i.jwt, SECRET_KEY, now).ok
            /\ read_users_me(db, i.jwt, now).status = 401

\* a token is invalid when its signature does not match, its payload is
\* malformed, or its expiry is not after the clock
SignatureMatches(token) ==
    token = jwt_encode([exp |-> token.exp, sub |-> token.sub, role |-> token.role],
                       SECRET_KEY)
Malformed(token) ==
    token.sub = Missing \/ ~IsUuidString(token.sub) \/ token.role = Missing

\* C8: verification fails closed: a token whose signature does not match, whose
\* payload is malformed (subject missing or no identifier, role missing) or whose
\* expiry is at or before the clock resolves to no identity and is answered 401.
C8_InvalidTokenIs401 ==
    \A token \in Presentable :
        (~SignatureMatches(token) \/ Malformed(token) \/ token.exp <= now) =>
            /\ get_current_user_and_role(db, token, now) = [status |-> 401, user |-> None]
            /\ read_users_me(db, token, now).status = 401

\* C9: every issued token expires at its issue time plus the ttl asked for (24
\* hours when none is given) and carries the subject and role it was issued for;
\* a login token carries the id and stored role of the identity that logged in;
\* a token is accepted only strictly before its expiry.
C9_ExpiryIsIssuePlusTtl ==
    \A i \in issued :
        /\ i.jwt.exp = i.at + AskedTtl(i)
        /\ i.jwt.sub = Str(i.sub)
        /\ i.jwt.role = i.role
        /\ Accepted(i.jwt) => now < i.jwt.exp

\* C10: a token with a matching signature and an expiry still ahead whose subject
\* is an identifier the store no longer holds is answered 401, not 404, by every
\* protected operation, and nothing is read or changed.
ProtectedResults(token) ==
    {read_users_me(db, token, now)}
    \cup {read_patient_records(db, token, q, now) : q \in PatientIdInputs}
    \cup {read_record_detail(db, token, id, now) : id \in RecordIdInputs}
    \cup {create_record(db, token, body, now) : body \in RecordBodies}
    \cup {update_patient_profile(db, token, profile_in, now) :
             profile_in \in PatientProfileInputs}
    \cup {create_staff_user(db, token, req[1], req[2], now) : req \in StaffRequests}
    \cup {create_hospital(db, token, hospital_in, now) : hospital_in \in HospitalCreateInputs}
    \cup {read_hospital(db, token, h, now) : h \in HospitalIdInputs}
    \cup {update_hospital(db, token, h, hospital_in, now) :
             h \in HospitalIdInputs, hospital_in \in HospitalUpdateInputs}

SubjectGone(token) ==
    /\ SignatureMatches(token)
    /\ now < token.exp
    /\ IsUuidString(token.sub)
    /\ token.sub \notin DOMAIN db.users

C10_GoneSubjectIs401 ==
    \A i \in issued :
        SubjectGone(i.jwt) =>
            \A r \in ProtectedResults(i.jwt) :
                r.status = 401 /\ r.body = {} /\ r.db = db

\* the identity a token was issued to has been deleted since
C10_Witness ==
    \E i \in issued :
        /\ i.jwt.sub \in DOMAIN SeedDb.users
        /\ SubjectGone(i.jwt)
        /\ read_users_me(db, i.jwt, now).status = 401

---------------------------------------------------------------------------
(* Claims about the role gate and the order of the checks *)

\* what the operations open to Hospital Admins only answer to a token
AdminOnlyResults(token) ==
    {create_staff_user(db, token, req[1], req[2], now) : req \in StaffRequests}
    \cup {create_hospital(db, token, hospital_in, now) : hospital_in \in HospitalCreateInputs}
    \cup {read_hospitals(db, token, now)}
    \cup {read_hospital(db, token, h, now) : h \in HospitalIdInputs}
    \cup {update_hospital(db, token, h, hospital_in, now) :
             h \in HospitalIdInputs, hospital_in \in HospitalUpdateInputs}
    \cup {get_admin_analytics(db, token, now)}

\* what the operations open to Doctors only answer to a token
DoctorOnlyResults(token) ==
    {create_record(db, token, body, now) : body \in RecordBodies}
    \cup {search_patients_endpoint(db, token, query, now) : query \in QueryInputs}

C12_TokenRoleDecides ==
    \A i \in issued, allowed_roles \in SUBSET Roles :
        i.jwt.sub \in DOMAIN db.users =>
            require_role(allowed_roles, db, i.jwt, now).status =
                IF i.jwt.role \in allowed_roles THEN 200 ELSE 403

\* a token that authenticates nobody: its signature does not match
Unauthenticated(token) == ~SignatureMatches(token)

\* what the protected operations that name a patient, a record or a hospital
\* answer when what they name is missing
MissingHospitalResults(token) ==
    {update_hospital(db, token, h, hospital_in, now) :
        h \in HospitalIdInputs \ DOMAIN db.hospitals, hospital_in \in HospitalUpdateInputs}
    \cup {read_hospital(db, token, h, now) : h \in HospitalIdInputs \ DOMAIN db.hospitals}
MissingRecordResults(token) ==
    {read_record_detail(db, token, id, now) : id \in RecordIdInputs \ DOMAIN db.medical_records}
MissingPatientListResults(token) ==
    {read_patient_records(db, token, q, now) : q \in PatientIdInputs \ DOMAIN db.patient_profiles}
MissingPatientCreateResults(token) ==
    {create_record(db, token, body, now) :
        body \in {b \in RecordBodies : b.patient_id \notin DOMAIN db.patient_profiles}}

\* the order Authentication, Role Gate, Existence, Scope for the operations other
\* than read_patient_records
ChecksInOrderElsewhere ==
    /\ \A token \in Bearers :
          Unauthenticated(token) =>
              \A r \in ProtectedResults(token) \cup DoctorOnlyResults(token)
                       \cup AdminOnlyResults(token) : r.status = 401
    /\ \A i \in Holders("Patient") \cup Holders("Doctor") :
          \A r \in MissingHospitalResults(i.jwt) : r.status = 403
    /\ \A i \in Holders("Patient") \cup Holders("Hospital Admin") :
          \A r \in MissingPatientCreateResults(i.jwt) : r.status = 403
    /\ \A i \in Holders("Hospital Admin") :
          \A r \in MissingHospitalResults(i.jwt) : r.status = 404
    /\ \A i \in Holders("Doctor") :
          \A r \in MissingPatientCreateResults(i.jwt) : r.status = 404
    /\ \A i \in issued :
          i.jwt.sub \in DOMAIN db.users =>
              \A r \in MissingRecordResults(i.jwt) : r.status = 404

\* C13: every protected operation answers with the first check that fails in the
\* order Authentication, Role Gate, Existence, Scope: 401 for a token that
\* authenticates nobody, 403 for a role the operation does not list even when
\* what it names is missing, and 404 for a missing patient, record or hospital
\* before any 403 of scope.
C13_ChecksInOrder ==
    /\ ChecksInOrderElsewhere
    /\ \A i \in issued :
          i.jwt.sub \in DOMAIN db.users =>
              \A r \in MissingPatientListResults(i.jwt) : r.status = 404

---------------------------------------------------------------------------
(* Claims about identities and their profiles *)

\* the profile tables that hold a row for u
ProfileKinds(d, u) ==
    {k \in {"Patient", "Doctor", "Hospital Admin"} :
        u \in DOMAIN (CASE k = "Patient" -> d.patient_profiles
                        [] k = "Doctor" -> d.doctors
                        [] k = "Hospital Admin" -> d.hospital_admins)}

\* every identity row has a profile row and every profile row an identity row
BothOrNeither(d) ==
    /\ \A u \in DOMAIN d.users : ProfileKinds(d, u) # {}
    /\ (DOMAIN d.patient_profiles \cup DOMAIN d.doctors \cup DOMAIN d.hospital_admins)
          \subseteq DOMAIN d.users

\* the calls of create_user the endpoints can make
CreateUserInputs ==
    StaffRequests \cup (RegisterRequests \X PatientProfileInputs)

\* C14: creation of an identity and its profile is atomic: whether create_user
\* returns or fails at any step, the store it leaves holds both the identity row
\* and its profile row or neither, and a failed call leaves the store as it was.
C14_CreateUserIsAtomic ==
    /\ BothOrNeither(db)
    /\ \A in \in CreateUserInputs :
          LET r == create_user(db, in[1], in[2]) IN
          /\ BothOrNeither(r.db)
          /\ ~r.ok => r.db = db
          /\ r.ok => /\ DOMAIN r.db.users = DOMAIN db.users \cup {r.id}
                     /\ ProfileKinds(r.db, r.id) # {}
    /\ \A i \in issued, req \in StaffRequests :
          BothOrNeither(create_staff_user(db, i.jwt, req[1], req[2], now).db)
    /\ \A user_in \in RegisterRequests, profile \in PatientProfileInputs :
          BothOrNeither(register_user(db, user_in, profile).db)

\* create_user fails after the identity row was flushed: for a role of no
\* profile kind and for a profile that does not fit the role
C14_Witness ==
    /\ \E in \in CreateUserInputs :
          /\ get_user_by_email(db, in[1].email) = {}
          /\ in[1].role \notin Roles
          /\ ~create_user(db, in[1], in[2]).ok
    /\ \E in \in CreateUserInputs :
          /\ get_user_by_email(db, in[1].email) = {}
          /\ in[1].role = "Doctor" /\ in[2].kind = "admin"
          /\ ~create_user(db, in[1], in[2]).ok
    /\ \E i \in Holders("Hospital Admin"), req \in StaffRequests :
          /\ req[1].role \notin Roles
          /\ create_staff_user(db, i.jwt, req[1], req[2], now).status = 500

OneMatchingProfile ==
    /\ \A u \in DOMAIN db.users : ProfileKinds(db, u) = {db.users[u].role}
    /\ (DOMAIN db.patient_profiles \cup DOMAIN db.doctors \cup DOMAIN db.hospital_admins)
          \subseteq DOMAIN db.users

RoleUnchanged ==
    \A u \in DOMAIN db.users :
        u \in DOMAIN db'.users /\ db'.users[u].role = db.users[u].role

\* C15: in every state reachable through the API each identity has exactly one
\* profile, of the kind of its role and keyed by its id, and no step changes the
\* role of an identity.
C15_OneProfileOfTheRole ==
    [](OneMatchingProfile) /\ [][RoleUnchanged]_vars

\* a registered patient has updated the profile
C15_Witness ==
    /\ last.op = "update_patient_profile"
    /\ last.caller \in DOMAIN db.users \ SeedIds
    /\ db.users[last.caller].role = "Patient"
    /\ ProfileKinds(db, last.caller) = {"Patient"}

\* the row of the profile table the role of u selects, if there is one
ProfileOfRole(d, u) ==
    LET role == d.users[u].role
        table == CASE role = "Patient" -> d.patient_profiles
                   [] role = "Doctor" -> d.doctors
                   [] role = "Hospital Admin" -> d.hospital_admins
                   [] OTHER -> <<>>
    IN IF u \in DOMAIN table THEN {table[u]} ELSE {}

\* C16: get_user_profile returns the profile of the kind the identity's role
\* selects; it returns None only when the identity exists and the profile row of
\* its role is missing, and then it does return None; the outcome for a role of
\* no profile kind is another one.
C16_DispatcherReturnsNoneForMissingRow ==
    \A u \in DOMAIN db.users :
        LET out == get_user_profile(db, u) IN
        /\ (db.users[u].role \in Roles /\ ProfileOfRole(db, u) # {}) =>
              /\ out.raises = None
              /\ {p.row : p \in out.value} = ProfileOfRole(db, u)
        /\ (db.users[u].role \in Roles /\ ProfileOfRole(db, u) = {}) =>
              out = Returned({})
        /\ db.users[u].role \notin Roles => out # Returned({})

---------------------------------------------------------------------------
(* Claims about the credential store *)

\* passwords: shorter than the bound, exactly at it, longer, and longer with the
\* cut inside a character of two bytes
PasswordInputs ==
    {ShortPassword, TEST_PASS, Password123, AsciiPassword72, AsciiPassword73, LongPassword}

\* C17: for every password P, verify_password(P, get_password_hash(P)) is true,
\* also when P is longer than 72 bytes and when the cut at 72 bytes falls inside
\* a character of several bytes; a patient registered with such a password logs
\* in with it.
C17_VerifyAcceptsOwnHash ==
    /\ \A P \in PasswordInputs :
          LET v == verify_password(P, get_password_hash(P)) IN
          v.raises = None /\ v.value = TRUE
    /\ \A user_in \in RegisterRequests, profile \in PatientProfileInputs :
          LET r == register_user(db, user_in, profile) IN
          r.status = 201 =>
              login_for_access_token(r.db, user_in.email, user_in.password, now).status = 200
    /\ \A u \in DOMAIN db.users, P \in LoginPasswords :
          db.users[u].password_hash = get_password_hash(P) =>
              login_for_access_token(db, db.users[u].email, P, now).status = 200

\* a patient registered with the long password, whose cut falls inside a
\* character, holds a token
C17_Witness ==
    /\ Len(Utf8Encode(LongPassword)) > BCRYPT_MAX_BYTES
    /\ Len(Utf8Encode(Truncate(LongPassword))) < BCRYPT_MAX_BYTES
    /\ \E i \in issued :
          /\ i.jwt.sub \in DOMAIN db.users \ SeedIds
          /\ db.users[i.jwt.sub].password_hash = get_password_hash(LongPassword)
          /\ login_for_access_token(db, db.users[i.jwt.sub].email, LongPassword, now).status = 200

\* C18: verify_password called with a stored digest that get_password_hash did
\* not produce returns false and does not raise, and a login against an identity
\* with such a digest ends in 401.
C18_MalformedDigestIsRefused ==
    \A u \in DOMAIN db.users, P \in LoginPasswords :
        db.users[u].password_hash.scheme # "bcrypt" =>
            LET v == verify_password(P, db.users[u].password_hash) IN
            /\ v.raises = None
            /\ v.value = FALSE
            /\ login_for_access_token(db, db.users[u].email, P, now).status = 401

---------------------------------------------------------------------------
(* The round trip of a patient *)

\* what follows a registration with user_in that left the store d
AfterRegistration(d, user_in) ==
    LET login == login_for_access_token(d, user_in.email, user_in.password, now) IN
    /\ login.status = 200
    /\ \A token \in login.body :
          /\ \A me \in {read_users_me(d, token, now)} :
                /\ me.status = 200
                /\ \A row \in me.body : row.role = "Patient" /\ row.email = user_in.email
                /\ me.body # {}
          /\ \A req \in StaffRequests :
                LET r == create_staff_user(d, token, req[1], req[2], now) IN
                r.status = 403 /\ r.db = d
    /\ \A W \in LoginPasswords \ {user_in.password} :
          LET wrong == login_for_access_token(d, user_in.email, W, now) IN
          wrong.status = 401 /\ wrong.body = {}
    /\ \A W \in LoginPasswords :
          LET nobody == login_for_access_token(d, "nobody", W, now) IN
          nobody.status = 401 /\ nobody.body = {}

\* C19: after a Patient registers with email E and password W, login with (E, W)
\* issues a token with which reading the own identity gives role Patient and
\* email E; login with E and another password, or with an email of no identity,
\* gives 401 and no token; create_staff_user with the Patient's token gives 403
\* and creates nothing.
C19_PatientRoundTrip ==
    /\ \A user_in \in RegisterRequests, profile \in PatientProfileInputs :
          LET r == register_user(db, user_in, profile) IN
          r.status = 201 => AfterRegistration(r.db, user_in)
    /\ \A u \in DOMAIN db.users \ SeedIds, W \in LoginPasswords :
          (db.users[u].role = "Patient"
           /\ db.users[u].password_hash = get_password_hash(W)) =>
              AfterRegistration(db, UserCreate(db.users[u].email, W, "Patient"))
    /\ \A i \in issued :
          i.jwt.sub \in DOMAIN db.users \ SeedIds =>
              \A req \in StaffRequests :
                  db.users[i.jwt.sub].role = "Patient" =>
                      create_staff_user(db, i.jwt, req[1], req[2], now).status = 403

\* a registered patient holds a token that the staff endpoint refuses, and a
\* wrong password is refused
C19_Witness ==
    /\ last.op = "login"
    /\ last.status = 200
    /\ \E i \in issued :
          /\ i.jwt.sub = last.caller
          /\ i.jwt.sub \in DOMAIN db.users \ SeedIds
          /\ db.users[i.jwt.sub].role = "Patient"
          /\ read_users_me(db, i.jwt, now).status = 200
          /\ \E req \in StaffRequests :
                /\ req[2].hospital_id = 1
                /\ create_staff_user(db, i.jwt, req[1], req[2], now).status = 403
          /\ login_for_access_token(db, db.users[i.jwt.sub].email, TEST_PASS, now).status = 401

---------------------------------------------------------------------------
(* Resolution of a token, under TokenSpec *)

\* instants within the ttl of a token: its issue, the clock, and the minute
\* before its expiry
ResolveTimes(i) ==
    {t \in {i.at, now, i.jwt.exp - 1} : i.at <= t /\ t < i.jwt.exp}

\* C20: resolving the same valid token twice within its ttl, the store being the
\* same, gives the same identity with the same role both times, and resolving
\* changes nothing in the store.
C20_ResolutionIsIdempotent ==
    /\ \A i \in issued :
          (SignatureMatches(i.jwt) /\ ~Malformed(i.jwt)) =>
              \A t1 \in ResolveTimes(i), t2 \in ResolveTimes(i) :
                  /\ get_current_user_and_role(db, i.jwt, t1)
                        = get_current_user_and_role(db, i.jwt, t2)
                  /\ read_users_me(db, i.jwt, t1) = read_users_me(db, i.jwt, t2)
                  /\ i.jwt.sub \in DOMAIN db.users =>
                        /\ get_current_user_and_role(db, i.jwt, t1)
                              = [status |-> 200, user |-> i.jwt.sub]
                        /\ read_users_me(db, i.jwt, t1).body = {db.users[i.jwt.sub]}
    /\ \A token \in Presentable : read_users_me(db, token, now).db = db

\* a token issued earlier is resolved again, later within its ttl
C20_Witness ==
    \E i \in issued :
        /\ i.at < now
        /\ now < i.jwt.exp
        /\ now \in ResolveTimes(i)
        /\ i.jwt.sub \in DOMAIN db.users
        /\ get_current_user_and_role(db, i.jwt, i.at) = [status |-> 200, user |-> i.jwt.sub]
        /\ get_current_user_and_role(db, i.jwt, now) = [status |-> 200, user |-> i.jwt.sub]

---------------------------------------------------------------------------
(* Claims about duplicates, records and patient profiles *)

\* the statuses by which a caller can tell a conflict from a crash: the 400 the
\* handlers raise for a value that is taken, and 409
ConflictStatuses == {400, 409}

\* what register_user and create_staff_user answer to a request that passes
\* every check of the handler and names an email the store holds
DuplicateEmailResults ==
    {register_user(db, user_in, profile_in) :
        user_in \in {u \in RegisterRequests :
                        /\ UserCreateValid(u)
                        /\ u.role = "Patient"
                        /\ get_user_by_email(db, u.email) # {}},
        profile_in \in PatientProfileInputs}
    \cup UNION {{create_staff_user(db, i.jwt, req[1], req[2], now) :
                    req \in {q \in StaffRequests :
                                /\ UserCreateValid(q[1])
                                /\ q[1].role \in StaffRoles
                                /\ get_user_by_email(db, q[1].email) # {}}} :
                i \in Holders("Hospital Admin")}

\* what create_staff_user answers to a Hospital Admin who adds a doctor to their
\* own hospital under a fresh email and a license_number the store holds
DuplicateLicenseResults ==
    UNION {{create_staff_user(db, i.jwt, req[1], req[2], now) :
               req \in {q \in StaffRequests :
                           /\ UserCreateValid(q[1])
                           /\ q[1].role = "Doctor"
                           /\ q[2].kind = "doctor"
                           /\ get_user_by_email(db, q[1].email) = {}
                           /\ i.jwt.sub \in DOMAIN db.hospital_admins
                           /\ q[2].hospital_id = db.hospital_admins[i.jwt.sub].hospital_id
                           /\ \E o \in DOMAIN db.doctors :
                                  db.doctors[o].license_number = q[2].license_number}} :
           i \in Holders("Hospital Admin")}

\* what create_hospital answers to a Hospital Admin who names a hospital name
\* the store holds, and update_hospital to a Hospital Admin who gives their own
\* hospital the name of another
DuplicateNameResults ==
    UNION {{create_hospital(db, i.jwt, hospital_in, now) :
               hospital_in \in {h \in HospitalCreateInputs : NameTaken(db, h.name, {})}}
           \cup {update_hospital(db, i.jwt, db.hospital_admins[i.jwt.sub].hospital_id,
                                 hospital_in, now) :
                    hospital_in \in {h \in HospitalUpdateInputs :
                                        /\ i.jwt.sub \in DOMAIN db.hospital_admins
                                        /\ NameTaken(db, h.name,
                                              {db.hospital_admins[i.jwt.sub].hospital_id})}} :
           i \in Holders("Hospital Admin")}

\* the part of C21 the handlers check themselves: a taken email is answered
\* with 400, and no duplicate of any kind changes the store
DuplicateEmailIsConflict ==
    /\ \A r \in DuplicateEmailResults : r.status = 400
    /\ \A r \in DuplicateEmailResults \cup DuplicateLicenseResults \cup DuplicateNameResults :
          r.db = db

\* C21: a create or update request that would duplicate a unique value (an
\* email, a doctor's license_number, a hospital name) ends in a Conflict outcome
\* the caller can tell from other outcomes, and leaves the store unchanged.
C21_DuplicateIsConflict ==
    \A r \in DuplicateEmailResults \cup DuplicateLicenseResults \cup DuplicateNameResults :
        r.status \in ConflictStatuses /\ r.db = db

\* what create_record answers to the holders of tokens, with the holder
CreateRecordResults ==
    {[holder |-> i.jwt.sub, body |-> body, r |-> create_record(db, i.jwt, body, now)] :
        i \in {h \in issued : h.jwt.sub \in DOMAIN db.users}, body \in RecordBodies}

\* a record is made only for a Doctor and an existing patient profile, as one new
\* row; a Doctor who names a patient that does not exist gets 404
RecordsMadeByDoctorsForPatients ==
    /\ \A c \in CreateRecordResults :
          /\ c.r.db # db =>
                /\ c.r.status = 201
                /\ db.users[c.holder].role = "Doctor"
                /\ c.body.patient_id \in DOMAIN db.patient_profiles
                /\ \E id \in DOMAIN c.r.db.medical_records \ DOMAIN db.medical_records :
                      /\ c.r.db = [db EXCEPT !.medical_records =
                                      @ @@ (id :> c.r.db.medical_records[id])]
                      /\ c.r.db.medical_records[id].patient_id = c.body.patient_id
          /\ db.users[c.holder].role = "Doctor"
                /\ c.body.patient_id \notin DOMAIN db.patient_profiles
             => c.r.status = 404 /\ c.r.db = db
    /\ \A id \in DOMAIN db.medical_records :
          db.medical_records[id].patient_id \in DOMAIN db.patient_profiles

\* a step keeps every record as it is, and adds records only in create_record
RecordsKept ==
    /\ \A id \in DOMAIN db.medical_records :
          /\ id \in DOMAIN db'.medical_records
          /\ db'.medical_records[id] = db.medical_records[id]
    /\ DOMAIN db'.medical_records # DOMAIN db.medical_records =>
          /\ last'.op = "create_record"
          /\ last'.status = 201
          /\ db.users[last'.caller].role = "Doctor"

\* C22: a medical record is created only by a caller holding the Doctor role
\* and only for an existing patient profile (a missing patient gives 404 and no
\* record); no operation changes a field of a record or removes one, so the set
\* of records only grows and each record keeps its patient_id, doctor_id and
\* hospital_id.
C22_RecordsCreatedOnceAndKept ==
    [](RecordsMadeByDoctorsForPatients) /\ [][RecordsKept]_vars

\* a Doctor created a record for an existing patient, and the records that were
\* there before are as they were
C22_Witness ==
    /\ last.op = "create_record"
    /\ last.status = 201
    /\ \E id \in last.body :
          /\ id \notin DOMAIN SeedDb.medical_records
          /\ db.medical_records[id].patient_id \in DOMAIN db.patient_profiles
          /\ db.users[db.medical_records[id].doctor_id].role = "Doctor"
    /\ \A id \in DOMAIN SeedDb.medical_records :
          db.medical_records[id] = SeedDb.medical_records[id]

\* what update_patient_profile answers to the holders of tokens, with the holder
UpdateProfileResults ==
    {[holder |-> i.jwt.sub, r |-> update_patient_profile(db, i.jwt, profile_in, now)] :
        i \in {h \in issued : h.jwt.sub \in DOMAIN db.users},
        profile_in \in PatientProfileInputs}

\* update_patient_profile refuses a caller who is no Patient, and writes at most
\* the row of patient_profiles whose user_id is the caller's id
OnlyOwnProfileWritten ==
    \A c \in UpdateProfileResults :
        /\ db.users[c.holder].role # "Patient" => c.r.status = 403 /\ c.r.db = db
        /\ c.r.status = 200 =>
              /\ db.users[c.holder].role = "Patient"
              /\ c.r.body = {c.holder}
              /\ DOMAIN c.r.db.patient_profiles = DOMAIN db.patient_profiles
              /\ \A u \in DOMAIN db.patient_profiles \ {c.holder} :
                    c.r.db.patient_profiles[u] = db.patient_profiles[u]
              /\ c.r.db = [db EXCEPT !.patient_profiles = c.r.db.patient_profiles]
        /\ c.r.status # 200 => c.r.db = db

\* a step changes a patient profile only by an update_patient_profile of the
\* patient the profile belongs to, and removes none
ProfileChangedByOwner ==
    \A u \in DOMAIN db.patient_profiles :
        /\ u \in DOMAIN db'.patient_profiles
        /\ db'.patient_profiles[u] # db.patient_profiles[u] =>
              /\ last'.op = "update_patient_profile"
              /\ last'.caller = u
              /\ last'.status = 200
              /\ db.users[u].role = "Patient"

\* C23: update_patient_profile changes only the PatientProfile whose user_id is
\* the caller's id and never that user_id; a caller whose role is not Patient
\* gets 403 and no profile changes; no sequence of calls lets one Patient alter
\* the profile of another.
C23_PatientUpdatesOwnProfileOnly ==
    [](OnlyOwnProfileWritten) /\ [][ProfileChangedByOwner]_vars

\* patient p2 renamed their profile while the profile of p1 is as it was seeded
C23_Witness ==
    /\ last.op = "update_patient_profile"
    /\ last.caller = "p2"
    /\ db.patient_profiles["p2"] # SeedDb.patient_profiles["p2"]
    /\ db.patient_profiles["p1"] = SeedDb.patient_profiles["p1"]

---------------------------------------------------------------------------
(* Claims about role strings, the stored role and rejected requests *)

\* the statuses of a request refused for what it carries: the 422 of the schema
\* validation and the 400 the handlers raise
ValidationStatuses == {400, 422}

\* what register_user answers to a request whose role is none of the three
UnknownRoleRegisterResults ==
    {register_user(db, user_in, profile_in) :
        user_in \in {u \in RegisterRequests : UserCreateValid(u) /\ u.role \notin Roles},
        profile_in \in PatientProfileInputs}

\* what create_staff_user answers to a Hospital Admin whose request names the
\* admin's own hospital, an email that is free and a role that is none of the
\* three
UnknownRoleStaffResults ==
    UNION {{create_staff_user(db, i.jwt, req[1], req[2], now) :
               req \in {q \in StaffRequests :
                           /\ UserCreateValid(q[1])
                           /\ q[1].role \notin Roles
                           /\ get_user_by_email(db, q[1].email) = {}
                           /\ i.jwt.sub \in DOMAIN db.hospital_admins
                           /\ q[2].hospital_id = db.hospital_admins[i.jwt.sub].hospital_id}} :
           i \in Holders("Hospital Admin")}

\* the part of C24 that holds: register_user refuses every other role string
\* with 400, no request with such a role changes the store, and every stored
\* role is one of the three
NoUnknownRoleStored ==
    /\ \A r \in UnknownRoleRegisterResults : r.status = 400
    /\ \A r \in UnknownRoleRegisterResults \cup UnknownRoleStaffResults : r.db = db
    /\ \A u \in DOMAIN db.users : db.users[u].role \in Roles

\* C24: a register_user or create_staff_user request whose role string is not
\* exactly Patient, Doctor or Hospital Admin is rejected with a Validation
\* outcome returned to the caller, and no identity with a role outside the three
\* is ever stored.
C24_UnknownRoleIsValidationError ==
    /\ \A r \in UnknownRoleRegisterResults \cup UnknownRoleStaffResults :
          r.status \in ValidationStatuses /\ r.db = db
    /\ \A u \in DOMAIN db.users : db.users[u].role \in Roles

\* the token of the same subject and expiry with another role claim, signed
\* with the server's key
WithRole(token, role) ==
    jwt_encode([sub |-> token.sub, role |-> role, exp |-> token.exp], SECRET_KEY)

\* the answer of every protected operation to a token, request by request
Outcomes(token) ==
    [read_users_me |-> read_users_me(db, token, now),
     read_current_user_profile |-> read_current_user_profile(db, token, now),
     read_patient_records |->
        [q \in PatientIdInputs |-> read_patient_records(db, token, q, now)],
     read_record_detail |->
        [id \in RecordIdInputs |-> read_record_detail(db, token, id, now)],
     create_record |-> [body \in RecordBodies |-> create_record(db, token, body, now)],
     search_patients_endpoint |->
        [query \in QueryInputs |-> search_patients_endpoint(db, token, query, now)],
     update_patient_profile |->
        [profile_in \in PatientProfileInputs |->
            update_patient_profile(db, token, profile_in, now)],
     create_staff_user |->
        [req \in StaffRequests |-> create_staff_user(db, token, req[1], req[2], now)],
     create_hospital |->
        [hospital_in \in HospitalCreateInputs |-> create_hospital(db, token, hospital_in, now)],
     read_hospitals |-> read_hospitals(db, token, now),
     read_hospital |-> [h \in HospitalIdInputs |-> read_hospital(db, token, h, now)],
     update_hospital |->
        [x \in HospitalIdInputs \X HospitalUpdateInputs |->
            update_hospital(db, token, x[1], x[2], now)],
     get_admin_analytics |-> get_admin_analytics(db, token, now)]

\* C25: the outcome of a protected operation depends on the role stored for the
\* resolved identity and not on the role claim of the token: two validly signed,
\* unexpired tokens with the same subject and different role claims get the
\* same outcome from every operation.
C25_RoleClaimDoesNotDecide ==
    \A i \in issued, role \in RoleInputs :
        /\ jwt_decode(WithRole(i.jwt, role), SECRET_KEY, now).ok
        /\ Outcomes(WithRole(i.jwt, role)) = Outcomes(i.jwt)

\* a Hospital Admin holds a token; the token of the same subject that claims the
\* role Doctor is admitted to the list of hospitals and refused by create_record
C25_Witness ==
    \E i \in Holders("Hospital Admin") :
        /\ WithRole(i.jwt, "Doctor") # i.jwt
        /\ read_hospitals(db, WithRole(i.jwt, "Doctor"), now).status = 200
        /\ \A body \in RecordBodies :
              create_record(db, WithRole(i.jwt, "Doctor"), body, now).status = 403

---------------------------------------------------------------------------
(* Claims about concurrent requests *)

\* no two rows of users carry the same email
UniqueEmails ==
    \A u, v \in DOMAIN db.users : db.users[u].email = db.users[v].email => u = v

\* a request that runs alone through the three steps is answered as the handler
\* answers it: the checks pass exactly when the handler reaches create_user,
\* the INSERT is accepted, and the rest of create_user leaves the store
\* create_user leaves
SerialAgrees ==
    /\ \A user_in \in RegisterRequests, profile_in \in PatientProfileInputs :
          LET r == register_user(db, user_in, profile_in)
              made == create_user_after_flush(db, FreshIdAmong(db, {}), user_in, profile_in)
          IN
          /\ register_user_checked(db, user_in) <=> r.status \in {201, 500}
          /\ register_user_checked(db, user_in) =>
                /\ users_insert(db, {}, user_in.email) = "ok"
                /\ made.ok <=> r.status = 201
                /\ made.db = r.db
    /\ \A req \in StaffRequests :
          LET r == create_staff_user(db, AdminToken, req[1], req[2], now)
              made == create_user_after_flush(db, FreshIdAmong(db, {}), req[1], req[2])
          IN
          /\ create_staff_user_checked(db, AdminToken, req[1], req[2], now)
                <=> r.status \in {201, 500}
          /\ create_staff_user_checked(db, AdminToken, req[1], req[2], now) =>
                /\ users_insert(db, {}, req[1].email) = "ok"
                /\ made.ok <=> r.status = 201
                /\ made.db = r.db

\* C26: in every reachable state no two identities have the same email, also
\* when two register_user or create_staff_user requests for one email run
\* concurrently and both pass the get_user_by_email check before either
\* commits: at most one of them creates an identity.
C26_EmailsUniqueUnderRaces ==
    /\ UniqueEmails
    /\ SerialAgrees
    /\ \A s, x \in DOMAIN sessions :
          /\ s # x
          /\ sessions[s].pc = "flushed"
          /\ sessions[x].pc = "flushed"
          => sessions[s].row.email # sessions[x].row.email

\* two requests for one email passed the check before either committed, and one
\* of them has created the identity while the other is still on its way
C26_Witness ==
    \E s \in DOMAIN sessions :
        /\ sessions[s].pc = "checked"
        /\ get_user_by_email(db, sessions[s].user_in.email) # {}
        /\ last.status = 201
        /\ \A u \in last.body : db.users[u].email = sessions[s].user_in.email

---------------------------------------------------------------------------
(* Claims about rejected requests, the scope of reads and long passwords *)

RejectionStatuses == {400, 401, 403, 404}

\* the status of a result and whether it leaves the store as it is
Effect(r) == [status |-> r.status, kept |-> r.db = db]

\* the effects of registration and login, and of the operations behind a token
\* for every token a client can present
RequestEffects ==
    {Effect(register_user(db, user_in, profile_in)) :
        user_in \in RegisterRequests, profile_in \in PatientProfileInputs}
    \cup {Effect(login_for_access_token(db, username, password, now)) :
             username \in Emails \cup {"nobody"}, password \in LoginPasswords}
    \cup UNION {
        {Effect(read_patient_records(db, token, q, now)) : q \in PatientIdInputs}
        \cup {Effect(read_record_detail(db, token, id, now)) : id \in RecordIdInputs}
        \cup {Effect(create_record(db, token, body, now)) : body \in RecordBodies}
        \cup {Effect(update_patient_profile(db, token, profile_in, now)) :
                 profile_in \in PatientProfileInputs}
        \cup {Effect(create_staff_user(db, token, req[1], req[2], now)) :
                 req \in StaffRequests}
        \cup {Effect(update_hospital(db, token, h, hospital_in, now)) :
                 h \in HospitalIdInputs, hospital_in \in HospitalUpdateInputs}
        : token \in Presentable}

\* C27: every request that ends in a rejection (401, 403, 404, 400) in
\* registration, login, staff creation, record creation, record reads, hospital
\* update and patient-profile update leaves the stored identities, profiles,
\* hospitals and medical records exactly as they were.
C27_RejectionsChangeNothing ==
    \A e \in RequestEffects : e.status \in RejectionStatuses => e.kept

\* the store has been written to, and requests are rejected with each of the
\* four statuses while others are accepted and change the store
C27_Witness ==
    /\ db # SeedDb
    /\ \A status \in RejectionStatuses : \E e \in RequestEffects : e.status = status
    /\ \E e \in RequestEffects : ~e.kept

\* the logged-in identities whose stored role is Doctor or Hospital Admin
StaffHolders == Holders("Doctor") \cup Holders("Hospital Admin")

\* C28: read access to records is scoped for the Patient role only: every
\* authenticated Doctor or Hospital Admin, whatever hospital their profile
\* belongs to, can read the record list of every existing patient and every
\* existing single record, records created at other hospitals included.
C28_StaffReadEveryRecord ==
    \A i \in StaffHolders :
        /\ \A q \in DOMAIN db.patient_profiles :
              LET r == read_patient_records(db, i.jwt, q, now) IN
              /\ r.status = 200
              /\ r.body = {id \in DOMAIN db.medical_records :
                              db.medical_records[id].patient_id = q}
        /\ \A id \in DOMAIN db.medical_records :
              LET r == read_record_detail(db, i.jwt, id, now) IN
              r.status = 200 /\ r.body = {id}

\* a Doctor and a Hospital Admin of one hospital are logged in, and a record of
\* another hospital and the list of the patient it belongs to are read by both
C28_Witness ==
    \E i \in Holders("Doctor"), a \in Holders("Hospital Admin"),
       id \in DOMAIN db.medical_records :
        /\ StaffHospital(db, i.jwt.sub) # db.medical_records[id].hospital_id
        /\ StaffHospital(db, a.jwt.sub) # db.medical_records[id].hospital_id
        /\ read_record_detail(db, i.jwt, id, now).status = 200
        /\ read_record_detail(db, a.jwt, id, now).status = 200
        /\ id \in read_patient_records(db, i.jwt, db.medical_records[id].patient_id, now).body
        /\ id \in read_patient_records(db, a.jwt, db.medical_records[id].patient_id, now).body

\* the characters of a password that lie whole within the first 72 bytes of
\* its UTF-8 encoding: as many as have their last byte among those 72
WholePrefix(p) ==
    LET b == Utf8Encode(p)
        n == Cardinality({k \in 1..Len(b) : k <= BCRYPT_MAX_BYTES /\ b[k].k = b[k].w})
    IN SubSeq(p, 1, n)

PairInputs ==
    {TEST_PASS, Password123, AsciiPassword72, AsciiPassword73,
     LongPassword, LongPasswordTwin, LongPasswordHead, LongPasswordOther}

\* the pairs of passwords that agree on the first 72 bytes, a character cut by
\* the boundary dropped
Agreeing == {pq \in PairInputs \X PairInputs : WholePrefix(pq[1]) = WholePrefix(pq[2])}

\* each password of a pair that agrees verifies against the digest of the
\* other, and no password of a pair that differs does
DigestsInterchangeable ==
    \A pq \in PairInputs \X PairInputs :
        LET v == verify_password(pq[1], get_password_hash(pq[2])) IN
        v.raises = None /\ (v.value <=> pq \in Agreeing)

\* the digest get_password_hash stores for LongPassword
LongPasswordDigest == get_password_hash(LongPassword)

\* C29: two passwords whose UTF-8 encodings agree on the first 72 bytes (a
\* character cut by the boundary dropped) are interchangeable: each verifies
\* against the digest of the other, so login succeeds with either; two passwords
\* that differ within the first 72 bytes never verify against each other's
\* digest.
C29_Interchangeable72Bytes ==
    /\ DigestsInterchangeable
    /\ \A u \in DOMAIN db.users \ SeedIds, Q \in PairInputs :
          db.users[u].password_hash = LongPasswordDigest =>
              login_for_access_token(db, db.users[u].email, Q, now).status =
                  IF <<LongPassword, Q>> \in Agreeing THEN 200 ELSE 401

\* a patient registered with the long password whose cut falls inside a
\* character: the login succeeds with the password that differs only from that
\* character on and with the first 71 characters alone, and fails with the one
\* that differs in the 71st byte
C29_Witness ==
    /\ <<LongPassword, LongPasswordTwin>> \in Agreeing
    /\ LongPassword # LongPasswordTwin
    /\ <<LongPassword, LongPasswordOther>> \notin Agreeing
    /\ \E u \in DOMAIN db.users \ SeedIds :
          /\ db.users[u].password_hash = LongPasswordDigest
          /\ login_for_access_token(db, db.users[u].email, LongPasswordTwin, now).status = 200
          /\ login_for_access_token(db, db.users[u].email, LongPasswordHead, now).status = 200
          /\ login_for_access_token(db, db.users[u].email, LongPasswordOther, now).status = 401

================================================================
